---- MODULE Spec2Model ----
(***************************************************************************)
(* Agri-Adapt AI (Inflection-AI-Hackathon): the water-stress heuristics of *)
(* the weather collector, the master-table builder of the integration      *)
(* pipeline, and the life cycle of the maize resilience model object with  *)
(* the prediction endpoints of the two web services.                       *)
(*                                                                         *)
(* Numbers are fixed point.  Temperatures, rainfall, evapotranspiration    *)
(* and humidity are whole units; a water stress index is in thousandths    *)
(* (0.73 is 730); a yield is in thousandths of a tonne per hectare; a      *)
(* resilience score is in thousandths of a percent before rounding and in  *)
(* tenths of a percent once rounded to one decimal.                        *)
(***************************************************************************)
EXTENDS Integers, Sequences, FiniteSets, TLC

VARIABLES
    hourly,      \* the hourly weather record handed to the stress calculation
    stress,      \* its water stress index, once calculated
    response,    \* the hourly observations Open-Meteo returned for one county-month
    weather_data,    \* the records process_weather_response made of them
    monthly,     \* the collector's monthly aggregate of those records
    weather_columns, \* the columns of the weather_data_*.csv files
    dashboard,   \* what create_water_scarcity_data.py made of the files
    annual_data,     \* the annual maize yields handed to the yield filters
    enhanced_data,   \* the rows create_enhanced_dataset kept
    master_row,  \* a row of the master table before its composite metrics
    composite,   \* its composite metrics, once calculated
    soil_point,  \* a point of the soil properties file
    soil_county, \* the county assign_county gave it
    raster,      \* the rasters of data/chirps_data and what their samples are
    rainfall_data,   \* the rows convert_chirps_to_csv made of them
    irrigation_args, \* the arguments of one call of calculate_irrigation_needs
    irrigation_dict, \* the dict it returned
    month_group, \* the hourly records of one county-month, by what the scores read
    month_scores,    \* the 0-100 scores the dashboard datasets give the month
    call,        \* the last method called on obj and how it ended (history)
    prediction_metrics,  \* MetricsCollector.prediction_metrics
    lock,        \* MetricsCollector.lock: the thread that holds it, 0 when free
    threads,     \* where each thread stands in its call on the collector
    calls,       \* the record_prediction calls made so far (history)
    completed,   \* the record_prediction calls completed since the last reset (history)
    metrics_seen,    \* what the last get_metrics read
    data_files,  \* what the DataService loaded of each dataset for the county
    data_resp,   \* the last response of a data endpoint
    pcMaster,    \* where create_master_dataset stands
    tables,      \* the five datasets create_master_dataset has read so far
    soil_counties,   \* the County column of the soil points, before and after its filter
    master,      \* the result of create_master_dataset
    model,       \* fastapi_app.model: the service's global model object
    loaded,      \* the paths lifespan handed to load_model, in order (history)
    obj,         \* a MaizeResilienceModel that a script trains, loads and saves
    fresh,       \* a second MaizeResilienceModel, which loads what obj saved
    saved,       \* obj as it was when it wrote SavePath (history)
    trainer,     \* the EnhancedModelTrainer of retrain_with_enhanced_data.py
    lastTrain,   \* how the last training operation ended (history)
    disk,        \* the model files: path -> the dict dumped there
    dataset,     \* data/master_water_scarcity_dataset.csv
    resp         \* the last response of a prediction endpoint

stressVars == <<hourly, stress>>
weatherVars == <<response, weather_data, monthly, weather_columns, dashboard>>
enhanceVars == <<annual_data, enhanced_data>>
metricVars == <<master_row, composite>>
spatialVars == <<soil_point, soil_county, raster, rainfall_data>>
irrigationVars == <<irrigation_args, irrigation_dict>>
scoreVars == <<month_group, month_scores>>
callVars == <<call>>
collectorVars == <<prediction_metrics, lock, threads, calls, completed, metrics_seen>>
dataVars == <<data_files, data_resp>>
moreVars == <<irrigationVars, scoreVars, callVars, collectorVars, dataVars>>
datasetVars == <<enhanceVars, metricVars, spatialVars>>
derivedVars == <<datasetVars, moreVars>>
masterVars == <<pcMaster, tables, soil_counties, master>>
serviceVars == <<model, loaded, resp>>
objectVars == <<obj, fresh, saved>>
trainVars == <<trainer, lastTrain>>
vars == <<hourly, stress, response, weather_data, monthly, weather_columns, dashboard,
          annual_data, enhanced_data, master_row, composite,
          soil_point, soil_county, raster, rainfall_data,
          irrigation_args, irrigation_dict, month_group, month_scores, call,
          prediction_metrics, lock, threads, calls, completed, metrics_seen,
          data_files, data_resp,
          pcMaster, tables, soil_counties, master, model, loaded, obj, fresh, saved,
          trainer, lastTrain, disk, dataset, resp>>


Min(a, b) == IF a <= b THEN a ELSE b
Max(a, b) == IF a >= b THEN a ELSE b

(***************************************************************************)
(* collect_openmeteo_data.py: calculate_water_stress_index                 *)
(***************************************************************************)
NoRainStress == 860
BaseStress == 730
MinStress == 730
MaxStress == 860
TempThreshold == 25
EvapThreshold == 5
RainThreshold == 50
HumidityThreshold == 60
TempRate == 60
EvapRate == 60
RainRate == 8
HumidityRate == 2
TempCap == 300
EvapCap == 300

TempValues == {-10, 20, 25, 26, 31, 35, 100}
EvapValues == {0, 2, 5, 6, 8, 40}
PrecipValues == {-1, 0, 1, 9, 20, 49, 50, 80}
HumidityValues == {0, 50, 59, 60, 80, 100}

temp_factor(temp) ==
    IF temp > TempThreshold THEN Min(TempCap, (temp - TempThreshold) * TempRate) ELSE 0

evap_factor(evap) ==
    IF evap > EvapThreshold THEN Min(EvapCap, (evap - EvapThreshold) * EvapRate) ELSE 0

rainfall_factor(rainfall) ==
    IF rainfall < RainThreshold THEN (RainThreshold - rainfall) * RainRate ELSE 0

humidity_factor(humidity) ==
    IF humidity < HumidityThreshold THEN (HumidityThreshold - humidity) * HumidityRate ELSE 0

total_stress(temp, evap, rainfall, humidity) ==
    BaseStress + temp_factor(temp) + evap_factor(evap)
        + rainfall_factor(rainfall) + humidity_factor(humidity)

\* the clamp without its upper bound
ClampStressUncapped(total) == Max(MinStress, total)

\* line 157
ClampStress(total) == Max(MinStress, Min(MaxStress, total))

\* the index with a dry hour given the base stress
calculate_water_stress_index_dry_base(temp, evap, rainfall, humidity) ==
    IF rainfall <= 0
    THEN BaseStress
    ELSE ClampStress(total_stress(temp, evap, rainfall, humidity))

\* calculate_water_stress_index, lines 123-157, in thousandths
calculate_water_stress_index(temp, evap, rainfall, humidity) ==
    IF rainfall <= 0
    THEN NoRainStress
    ELSE ClampStress(total_stress(temp, evap, rainfall, humidity))

NoStress == [computed |-> FALSE, value |-> 0]

InitStress ==
    /\ hourly \in [temp : TempValues, evap : EvapValues,
                   precip : PrecipValues, hum : HumidityValues]
    /\ stress = NoStress

\* process_weather_response, lines 250-255: the index of one hourly record
CalcWaterStress ==
    /\ ~stress.computed
    /\ stress' = [computed |-> TRUE,
                  value |-> calculate_water_stress_index(hourly.temp, hourly.evap,
                                                         hourly.precip, hourly.hum)]
    /\ UNCHANGED <<hourly, weatherVars, derivedVars, masterVars, serviceVars, objectVars,
                   trainVars, disk, dataset>>

(***************************************************************************)
(* collect_openmeteo_data.py: process_weather_response and the monthly     *)
(* aggregate of create_water_scarcity_dashboard_data;                      *)
(* create_water_scarcity_data.py: the dashboard datasets made of the       *)
(* hourly files.  One county-month is followed: its hourly observations,   *)
(* the records made of them, and the two monthly aggregates.               *)
(***************************************************************************)
MaxObs == 3

IrrigationRainfall == 10
IrrigationStress == 750
PeakStress == 800
HighStress == 780
PeakVolume == 4450
HighVolume == 4300
ModerateVolume == 3800
PeakImpact == 20
HighImpact == 15
ModerateImpact == 10
HeatThreshold == 30

\* a value of the response, or None
Value(v) == [isNone |-> FALSE, v |-> v]
NoneValue == [isNone |-> TRUE, v |-> 0]

\* the bands tested from the lowest threshold up
calculate_irrigation_needs_unordered(rainfall, water_stress, temp) ==
    IF rainfall < IrrigationRainfall /\ water_stress > IrrigationStress
    THEN IF water_stress > HighStress
         THEN [irrigation_needed |-> "Yes", irrigation_volume_liters_ha |-> HighVolume,
               crop_yield_impact_percent |-> HighImpact]
         ELSE IF water_stress > PeakStress
         THEN [irrigation_needed |-> "Yes", irrigation_volume_liters_ha |-> PeakVolume,
               crop_yield_impact_percent |-> PeakImpact]
         ELSE [irrigation_needed |-> "Yes", irrigation_volume_liters_ha |-> ModerateVolume,
               crop_yield_impact_percent |-> ModerateImpact]
    ELSE [irrigation_needed |-> "No", irrigation_volume_liters_ha |-> 0,
          crop_yield_impact_percent |-> 0]

\* calculate_irrigation_needs, lines 159-187; the stress in thousandths
calculate_irrigation_needs(rainfall, water_stress, temp) ==
    IF rainfall < IrrigationRainfall /\ water_stress > IrrigationStress
    THEN IF water_stress > PeakStress
         THEN [irrigation_needed |-> "Yes", irrigation_volume_liters_ha |-> PeakVolume,
               crop_yield_impact_percent |-> PeakImpact]
         ELSE IF water_stress > HighStress
         THEN [irrigation_needed |-> "Yes", irrigation_volume_liters_ha |-> HighVolume,
               crop_yield_impact_percent |-> HighImpact]
         ELSE [irrigation_needed |-> "Yes", irrigation_volume_liters_ha |-> ModerateVolume,
               crop_yield_impact_percent |-> ModerateImpact]
    ELSE [irrigation_needed |-> "No", irrigation_volume_liters_ha |-> 0,
          crop_yield_impact_percent |-> 0]

calculate_heat_stress_days(temp) == IF temp > HeatThreshold THEN 1 ELSE 0

\* arguments of calculate_irrigation_needs on both sides of every threshold
IrrigationArgs ==
    [rainfall : {0, 9, 10, 20}, temp : {20, 35},
     water_stress : {730, 750, 751, 780, 781, 800, 801, 860}]

NoIrrigationData ==
    [made |-> FALSE, irrigation_needed |-> "", irrigation_volume_liters_ha |-> 0,
     crop_yield_impact_percent |-> 0]

InitIrrigation ==
    /\ irrigation_args \in IrrigationArgs
    /\ irrigation_dict = NoIrrigationData

\* one call of calculate_irrigation_needs
CalculateIrrigationNeeds ==
    /\ ~irrigation_dict.made
    /\ LET d == calculate_irrigation_needs(irrigation_args.rainfall,
                                           irrigation_args.water_stress,
                                           irrigation_args.temp)
       IN  irrigation_dict' =
               [made |-> TRUE, irrigation_needed |-> d.irrigation_needed,
                irrigation_volume_liters_ha |-> d.irrigation_volume_liters_ha,
                crop_yield_impact_percent |-> d.crop_yield_impact_percent]
    /\ UNCHANGED <<irrigation_args, scoreVars, callVars, collectorVars, dataVars, datasetVars>>
    /\ UNCHANGED <<stressVars, weatherVars, masterVars, serviceVars, objectVars, trainVars,
                   disk, dataset>>

\* process_weather_response, lines 224-275: the record made of one hourly
\* observation.  irrigation_dict stays the empty dict when a value is missing,
\* and .get then answers with its default.  A field is a value or None.
hourly_record(o) ==
    LET complete == ~o.temp.isNone /\ ~o.evap.isNone /\ ~o.precip.isNone /\ ~o.hum.isNone
        water_stress == IF complete
                        THEN Value(calculate_water_stress_index(o.temp.v, o.evap.v,
                                                                o.precip.v, o.hum.v))
                        ELSE NoneValue
        calculated == ~o.precip.isNone /\ ~water_stress.isNone /\ ~o.temp.isNone
        irrigation_data == calculate_irrigation_needs(o.precip.v, water_stress.v, o.temp.v)
    IN  [Temperature_C |-> o.temp,
         Humidity_Percent |-> o.hum,
         Evapotranspiration_mm |-> o.evap,
         Precipitation_mm |-> o.precip,
         Water_Stress_Index |-> water_stress,
         Irrigation_Needed |->
             Value(IF calculated THEN irrigation_data.irrigation_needed ELSE "Unknown"),
         Irrigation_Volume_Liters_Ha |->
             Value(IF calculated THEN irrigation_data.irrigation_volume_liters_ha ELSE 0),
         Crop_Yield_Impact_Percent |->
             Value(IF calculated THEN irrigation_data.crop_yield_impact_percent ELSE 0),
         Heat_Stress_Days |-> IF calculated THEN calculate_heat_stress_days(o.temp.v) ELSE 0]

\* the loop with its records that lack evapotranspiration left out
process_weather_response_dropping(obs) ==
    LET kept == SelectSeq(obs, LAMBDA o : ~o.evap.isNone)
    IN  [i \in 1 .. Len(kept) |-> hourly_record(kept[i])]

\* process_weather_response, lines 221-281: one record for each hourly time
process_weather_response(obs) == [i \in 1 .. Len(obs) |-> hourly_record(obs[i])]

Observation(temp, evap, precip, hum) ==
    [temp |-> temp, evap |-> evap, precip |-> precip, hum |-> hum]

\* the hours of the county-month: a dry hot hour, a mild hour, a wet hour, a
\* dry hour without evapotranspiration, and a wet hour without temperature
Observations ==
    { Observation(Value(35), Value(8), Value(0), Value(50)),
      Observation(Value(25), Value(4), Value(20), Value(70)),
      Observation(Value(20), Value(2), Value(80), Value(80)),
      Observation(Value(35), NoneValue, Value(0), Value(50)),
      Observation(NoneValue, Value(2), Value(80), Value(80)) }

Responses == UNION {[1 .. n -> Observations] : n \in 1 .. MaxObs}

Flags(records) == [i \in 1 .. Len(records) |-> records[i].Irrigation_Needed.v]

CountOf(xs, x) == Cardinality({i \in 1 .. Len(xs) : xs[i] = x})

\* an aggregate that says "Yes" as soon as one hour does
mode_any_yes(xs) ==
    IF \E i \in 1 .. Len(xs) : xs[i] = "Yes" THEN {"Yes"} ELSE {xs[i] : i \in 1 .. Len(xs)}

\* polars mode(): the most frequent values of the group, every one of them
\* when several are as frequent
mode(xs) ==
    {xs[i] : i \in {i \in 1 .. Len(xs) :
                       \A j \in 1 .. Len(xs) : CountOf(xs, xs[j]) <= CountOf(xs, xs[i])}}

RECURSIVE SumHeat(_)
SumHeat(records) ==
    IF records = <<>> THEN 0
    ELSE Head(records).Heat_Stress_Days + SumHeat(Tail(records))

NoMonthly ==
    [made |-> FALSE, Irrigation_Needed |-> {}, Monthly_Heat_Stress_Days |-> 0,
     irrigation_need_csv |-> FALSE]

\* create_water_scarcity_dashboard_data, lines 365-380: the row of the
\* county-month in monthly_agg
collector_monthly_agg(records) ==
    [made |-> TRUE,
     Irrigation_Needed |-> mode(Flags(records)),
     Monthly_Heat_Stress_Days |-> SumHeat(records),
     irrigation_need_csv |-> FALSE]

\* EXPECTED_COLUMNS
EXPECTED_COLUMNS ==
    {"County", "Date", "Time", "Year", "Month", "Day", "Hour", "Latitude", "Longitude",
     "Temperature_C", "Humidity_Percent", "Pressure_hPa", "Evapotranspiration_mm",
     "Precipitation_mm", "Water_Stress_Index", "Irrigation_Needed",
     "Irrigation_Volume_Liters_Ha", "Crop_Yield_Impact_Percent", "Heat_Stress_Days"}

Renamed(columns, old, new) == (columns \ {old}) \cup {new}

\* the columns the hourly files may have: the expected ones, one renamed, one
\* missing, one more
WeatherSchemas ==
    { EXPECTED_COLUMNS,
      Renamed(EXPECTED_COLUMNS, "Pressure_hPa", "Pressure_msl"),
      Renamed(EXPECTED_COLUMNS, "Irrigation_Needed", "Irrigation"),
      Renamed(EXPECTED_COLUMNS, "Water_Stress_Index", "Stress"),
      EXPECTED_COLUMNS \ {"Pressure_hPa"},
      EXPECTED_COLUMNS \cup {"Elevation"} }

\* load_and_validate_weather_data, lines 75-78: the exception it raises on a
\* combined table with these columns, "" when it returns the table
load_and_validate_weather_data(columns) ==
    IF Cardinality(columns) # Cardinality(EXPECTED_COLUMNS) THEN "ValueError" ELSE ""

\* the columns the three create_* functions select
WaterStressColumns ==
    {"County", "Year", "Month", "Water_Stress_Index", "Precipitation_mm",
     "Evapotranspiration_mm", "Humidity_Percent", "Date"}
IrrigationColumns ==
    {"County", "Year", "Month", "Precipitation_mm", "Water_Stress_Index", "Temperature_C",
     "Irrigation_Needed", "Irrigation_Volume_Liters_Ha", "Crop_Yield_Impact_Percent", "Date"}
TemperatureColumns ==
    {"County", "Year", "Month", "Temperature_C", "Heat_Stress_Days",
     "Evapotranspiration_mm", "Humidity_Percent", "Date"}

NoDashboard ==
    [status |-> "pending", exc |-> "", loaded |-> FALSE, files |-> {},
     Monthly_Irrigation_Needed |-> ""]

\* create_irrigation_need_data, line 139: the flag of the group's first record
create_irrigation_need_data(records) == Head(records).Irrigation_Needed.v

\* main of create_water_scarcity_data.py, lines 297-331, on hourly files with
\* these columns and these records
dashboard_main(columns, records) ==
    LET invalid == load_and_validate_weather_data(columns)
        Missing(used) == ~(used \subseteq columns)
    IN  IF invalid # ""
        THEN [NoDashboard EXCEPT !.status = "raised", !.exc = invalid]
        ELSE IF Missing(WaterStressColumns) \/ Missing(IrrigationColumns)
                \/ Missing(TemperatureColumns)
        THEN [NoDashboard EXCEPT !.status = "raised", !.exc = "ColumnNotFoundError",
                                 !.loaded = TRUE]
        ELSE [status |-> "saved", exc |-> "", loaded |-> TRUE,
              files |-> {"water_stress_index_data.csv", "irrigation_need_data.csv",
                         "temperature_data.csv", "dashboard_data_summary.json"},
              Monthly_Irrigation_Needed |-> create_irrigation_need_data(records)]

NoWeatherData == [processed |-> FALSE, records |-> <<>>]

InitWeather ==
    /\ response \in Responses
    /\ weather_data = NoWeatherData
    /\ monthly = NoMonthly
    /\ weather_columns \in WeatherSchemas
    /\ dashboard = NoDashboard

\* collect_county_weather_data: the response is processed
ProcessWeatherResponse ==
    /\ ~weather_data.processed
    /\ weather_data' = [processed |-> TRUE, records |-> process_weather_response(response)]
    /\ UNCHANGED <<response, monthly, weather_columns, dashboard>>
    /\ UNCHANGED <<stressVars, derivedVars, masterVars, serviceVars, objectVars, trainVars,
                   disk, dataset>>

\* create_water_scarcity_dashboard_data.  Irrigation_Needed is a list column
\* of monthly_agg; whether write_csv writes such a column or raises (and the
\* except of line 466 only logs) depends on the polars at hand
CreateWaterScarcityDashboardData ==
    /\ weather_data.processed
    /\ ~monthly.made
    /\ \E written \in BOOLEAN :
           monthly' = [collector_monthly_agg(weather_data.records) EXCEPT
                          !.irrigation_need_csv = written]
    /\ UNCHANGED <<response, weather_data, weather_columns, dashboard>>
    /\ UNCHANGED <<stressVars, derivedVars, masterVars, serviceVars, objectVars, trainVars,
                   disk, dataset>>

\* python create_water_scarcity_data.py
DashboardMain ==
    /\ weather_data.processed
    /\ dashboard.status = "pending"
    /\ dashboard' = dashboard_main(weather_columns, weather_data.records)
    /\ UNCHANGED <<response, weather_data, monthly, weather_columns>>
    /\ UNCHANGED <<stressVars, derivedVars, masterVars, serviceVars, objectVars, trainVars,
                   disk, dataset>>

(***************************************************************************)
(* create_water_scarcity_data.py: the scores of the irrigation and the     *)
(* temperature datasets.  A county-month is a group of hourly records; the *)
(* scores read the sum of its Heat_Stress_Days and the mean of its         *)
(* Water_Stress_Index.  The severity score is in hundredths, the           *)
(* efficiency score in thousandths.                                        *)
(***************************************************************************)
MaxHours == 17

\* 6.25 in hundredths
HeatSeverityPerDay == 625

MonthStress == {NoneValue, Value(MinStress), Value(795), Value(MaxStress)}

\* hours: the records of the group; hot: those with Heat_Stress_Days = 1, all
\* of which hold a stress index; stress: the mean index, None when no record
\* holds one
MonthGroups ==
    {g \in [hours : 1 .. MaxHours, hot : 0 .. MaxHours, stress : MonthStress] :
        g.hot <= g.hours /\ (g.stress.isNone => g.hot = 0)}

\* create_temperature_data, lines 188 and 200
heat_stress_severity_score(g) == g.hot * HeatSeverityPerDay

\* create_irrigation_need_data, lines 138 and 151; a null mean gives null
irrigation_efficiency_score(g) ==
    IF g.stress.isNone THEN NoneValue ELSE Value(100000 - g.stress.v * 100)

NoMonthScores ==
    [made |-> FALSE, Heat_Stress_Severity_Score |-> 0,
     Irrigation_Efficiency_Score |-> NoneValue]

InitScores ==
    /\ month_group \in MonthGroups
    /\ month_scores = NoMonthScores

\* main of create_water_scarcity_data.py, lines 309 and 313
CreateDashboardScores ==
    /\ ~month_scores.made
    /\ month_scores' =
           [made |-> TRUE,
            Heat_Stress_Severity_Score |-> heat_stress_severity_score(month_group),
            Irrigation_Efficiency_Score |-> irrigation_efficiency_score(month_group)]
    /\ UNCHANGED <<month_group, irrigationVars, callVars, collectorVars, dataVars, datasetVars>>
    /\ UNCHANGED <<stressVars, weatherVars, masterVars, serviceVars, objectVars, trainVars,
                   disk, dataset>>

(***************************************************************************)
(* integrate_all_datasets.py: the master-table builder.  A table is kept   *)
(* as the bag of its join keys: key -> number of rows with that key.  The  *)
(* joins are on (County, Year, Month) alone, so the number of rows a key   *)
(* has in the result depends on these multiplicities only.                 *)
(***************************************************************************)
MaxHourly == 2
NumMonths == 2
TargetYearLo == 2019
TargetYearHi == 2023

Counties == {"Nakuru", "Homa Bay"}
Years == {2019}
Months == 1 .. NumMonths
YearMonths == Years \X Months
Keys == Counties \X Years \X Months

\* A dataset: a DataFrame with the key columns (kind "table"), one without
\* columns ("nocolumns"), Python's None, a file that is not there ("absent"),
\* or the exception a reader or a join raised ("raised").
EmptyRows == [k \in Keys |-> 0]
Table(rows) == [kind |-> "table", rows |-> rows]
NoneTable == [kind |-> "None", rows |-> EmptyRows]
AbsentFile == [kind |-> "absent", rows |-> EmptyRows]
RaisedTable == [kind |-> "raised", rows |-> EmptyRows]
\* pl.DataFrame([]): a frame without rows and without columns
NoColumnsTable == [kind |-> "nocolumns", rows |-> EmptyRows]
\* pl.DataFrame(records)
DataFrame(rows) == IF rows = EmptyRows THEN NoColumnsTable ELSE Table(rows)
Rows(t) == {k \in Keys : t.rows[k] > 0}
IsEmpty(t) == Rows(t) = {}

\* a join that keeps a left row only when a right row matches
LeftJoinMatchedOnly(l, r) == Table([k \in Keys |-> l.rows[k] * r.rows[k]])

\* polars DataFrame.join(..., how="left"): every left row is kept, once per
\* matching right row, and once when no right row matches
LeftJoin(l, r) ==
    Table([k \in Keys |-> l.rows[k] * (IF r.rows[k] = 0 THEN 1 ELSE r.rows[k])])

\* polars DataFrame.join(..., how="inner")
InnerJoin(l, r) == Table([k \in Keys |-> l.rows[k] * r.rows[k]])

\* the weather files data/weather_data/weather_data_<stem>.csv
WeatherStems == {"nakuru", "homa_bay", "homa bay"}

\* file_path.stem.replace("weather_data_", "").replace("_", " ").title()
county_name(stem) ==
    CASE stem = "nakuru" -> "Nakuru"
      [] stem = "homa_bay" -> "Homa Bay"
      [] stem = "homa bay" -> "Homa Bay"

\* One file's monthly_agg: group_by(["Year", "Month"]) leaves one row for each
\* month the file has hourly rows of; hours[ym] is the number of hourly rows.
monthly_agg(stem, hours) ==
    [k \in Keys |-> IF k[1] = county_name(stem) /\ hours[<<k[2], k[3]>>] > 0 THEN 1 ELSE 0]

RECURSIVE Concat(_, _)
\* pl.concat of the monthly aggregates of a set of files
Concat(stems, hours) ==
    IF stems = {} THEN EmptyRows
    ELSE LET s == CHOOSE x \in stems : TRUE
             rest == Concat(stems \ {s}, hours)
             one == monthly_agg(s, hours)
         IN  [k \in Keys |-> one[k] + rest[k]]

aggregate_weather_data_monthly(stems, hours) ==
    IF stems = {} THEN NoneTable ELSE Table(Concat(stems, hours))

\* the three dashboard files, each absent or a table
EmptyTable == Table(EmptyRows)
FullTable == Table([k \in Keys |-> 1])
JanuaryTable == Table([k \in Keys |-> IF k[3] = 1 THEN 1 ELSE 0])
DashboardFiles == {AbsentFile, EmptyTable, FullTable, JanuaryTable}

merge_water_scarcity_dashboard_data(temperature, irrigation, water_stress) ==
    IF AbsentFile \in {temperature, irrigation, water_stress}
    THEN RaisedTable
    ELSE InnerJoin(InnerJoin(temperature, irrigation), water_stress)

\* county_maize_yields_2019-2023.csv: annual[<<county, year>>] rows; each row
\* becomes one row for every month of its year
integrate_maize_data(annual) ==
    IF annual.present
    THEN DataFrame([k \in Keys |-> annual.rows[<<k[1], k[2]>>]])
    ELSE NoneTable

MaxDup == 2
CountyYears == Counties \X Years
MaizeFiles ==
    [present : BOOLEAN,
     rows : {a \in [CountyYears -> 0 .. MaxDup] : a[<<"Homa Bay", 2019>>] = 0}]

CountyRectangles == <<
    [name |-> "Mombasa", latLo |-> -45, latHi |-> -35, lonLo |-> 390, lonHi |-> 405],
    [name |-> "Kwale", latLo |-> -45, latHi |-> -35, lonLo |-> 380, lonHi |-> 395],
    [name |-> "Kilifi", latLo |-> -38, latHi |-> -28, lonLo |-> 395, lonHi |-> 405],
    [name |-> "Tana River", latLo |-> -18, latHi |-> -8, lonLo |-> 395, lonHi |-> 405],
    [name |-> "Lamu", latLo |-> -25, latHi |-> -15, lonLo |-> 405, lonHi |-> 415],
    [name |-> "Taita Taveta", latLo |-> -38, latHi |-> -28, lonLo |-> 380, lonHi |-> 390],
    [name |-> "Garissa", latLo |-> -8, latHi |-> 2, lonLo |-> 390, lonHi |-> 405],
    [name |-> "Wajir", latLo |-> 10, latHi |-> 20, lonLo |-> 395, lonHi |-> 405],
    [name |-> "Mandera", latLo |-> 30, latHi |-> 40, lonLo |-> 410, lonHi |-> 420],
    [name |-> "Marsabit", latLo |-> 20, latHi |-> 30, lonLo |-> 375, lonHi |-> 385],
    [name |-> "Isiolo", latLo |-> 0, latHi |-> 10, lonLo |-> 370, lonHi |-> 380],
    [name |-> "Meru", latLo |-> 0, latHi |-> 10, lonLo |-> 375, lonHi |-> 385],
    [name |-> "Tharaka Nithi", latLo |-> -5, latHi |-> 5, lonLo |-> 375, lonHi |-> 385],
    [name |-> "Embu", latLo |-> -8, latHi |-> 2, lonLo |-> 370, lonHi |-> 380],
    [name |-> "Kitui", latLo |-> -18, latHi |-> -8, lonLo |-> 375, lonHi |-> 385],
    [name |-> "Machakos", latLo |-> -20, latHi |-> -10, lonLo |-> 370, lonHi |-> 380],
    [name |-> "Makueni", latLo |-> -25, latHi |-> -15, lonLo |-> 375, lonHi |-> 385],
    [name |-> "Nyandarua", latLo |-> -8, latHi |-> 2, lonLo |-> 360, lonHi |-> 370],
    [name |-> "Nyeri", latLo |-> -8, latHi |-> 2, lonLo |-> 365, lonHi |-> 375],
    [name |-> "Kirinyaga", latLo |-> -10, latHi |-> 0, lonLo |-> 370, lonHi |-> 380],
    [name |-> "Murang'a", latLo |-> -10, latHi |-> 0, lonLo |-> 370, lonHi |-> 380],
    [name |-> "Kiambu", latLo |-> -15, latHi |-> -5, lonLo |-> 365, lonHi |-> 375],
    [name |-> "Turkana", latLo |-> 30, latHi |-> 40, lonLo |-> 350, lonHi |-> 360],
    [name |-> "West Pokot", latLo |-> 10, latHi |-> 20, lonLo |-> 345, lonHi |-> 355],
    [name |-> "Samburu", latLo |-> 10, latHi |-> 20, lonLo |-> 365, lonHi |-> 375],
    [name |-> "Trans Nzoia", latLo |-> 10, latHi |-> 20, lonLo |-> 345, lonHi |-> 355],
    [name |-> "Uasin Gishu", latLo |-> 0, latHi |-> 10, lonLo |-> 350, lonHi |-> 360],
    [name |-> "Elgeyo Marakwet", latLo |-> 0, latHi |-> 10, lonLo |-> 350, lonHi |-> 360],
    [name |-> "Nandi", latLo |-> 0, latHi |-> 10, lonLo |-> 345, lonHi |-> 355],
    [name |-> "Baringo", latLo |-> 0, latHi |-> 10, lonLo |-> 360, lonHi |-> 370],
    [name |-> "Laikipia", latLo |-> 0, latHi |-> 10, lonLo |-> 360, lonHi |-> 370],
    [name |-> "Nakuru", latLo |-> -8, latHi |-> 2, lonLo |-> 355, lonHi |-> 365],
    [name |-> "Narok", latLo |-> -15, latHi |-> -5, lonLo |-> 355, lonHi |-> 365],
    [name |-> "Kajiado", latLo |-> -20, latHi |-> -10, lonLo |-> 365, lonHi |-> 375],
    [name |-> "Kericho", latLo |-> -8, latHi |-> 2, lonLo |-> 350, lonHi |-> 360],
    [name |-> "Bomet", latLo |-> -10, latHi |-> 0, lonLo |-> 350, lonHi |-> 360],
    [name |-> "Kakamega", latLo |-> 0, latHi |-> 10, lonLo |-> 340, lonHi |-> 350],
    [name |-> "Vihiga", latLo |-> 0, latHi |-> 10, lonLo |-> 340, lonHi |-> 350],
    [name |-> "Bungoma", latLo |-> 0, latHi |-> 10, lonLo |-> 340, lonHi |-> 350],
    [name |-> "Busia", latLo |-> 0, latHi |-> 10, lonLo |-> 340, lonHi |-> 350],
    [name |-> "Siaya", latLo |-> 0, latHi |-> 10, lonLo |-> 340, lonHi |-> 350],
    [name |-> "Kisumu", latLo |-> -5, latHi |-> 5, lonLo |-> 340, lonHi |-> 350],
    [name |-> "Homa Bay", latLo |-> -10, latHi |-> 0, lonLo |-> 340, lonHi |-> 350],
    [name |-> "Migori", latLo |-> -15, latHi |-> -5, lonLo |-> 340, lonHi |-> 350],
    [name |-> "Kisii", latLo |-> -10, latHi |-> 0, lonLo |-> 345, lonHi |-> 355],
    [name |-> "Nyamira", latLo |-> -10, latHi |-> 0, lonLo |-> 345, lonHi |-> 355],
    [name |-> "Nairobi", latLo |-> -15, latHi |-> -5, lonLo |-> 365, lonHi |-> 375] >>

RECURSIVE FirstRectangle(_, _, _)
FirstRectangle(lat, lon, i) ==
    IF i > Len(CountyRectangles) THEN "Unknown"
    ELSE LET r == CountyRectangles[i]
         IN  IF r.latLo <= lat /\ lat <= r.latHi /\ r.lonLo <= lon /\ lon <= r.lonHi
             THEN r.name
             ELSE FirstRectangle(lat, lon, i + 1)

\* tenths of a degree
assign_county(lat, lon) == FirstRectangle(lat, lon, 1)

SoilPoints ==
    { [country |-> "KE", lat |-> -3, lon |-> 357],
      [country |-> "KE", lat |-> -8, lon |-> 342],
      [country |-> "KE", lat |-> 100, lon |-> 100],
      [country |-> "TZ", lat |-> -3, lon |-> 357] }

SoilFiles == [present : BOOLEAN, points : SUBSET SoilPoints]

\* config/settings.py: the 47 counties
KENYA_COUNTIES ==
    {"Mombasa", "Kwale", "Kilifi", "Tana River", "Lamu", "Taita Taveta", "Garissa",
     "Wajir", "Mandera", "Marsabit", "Isiolo", "Meru", "Tharaka Nithi", "Embu",
     "Kitui", "Machakos", "Makueni", "Nyandarua", "Nyeri", "Kirinyaga", "Murang'a",
     "Kiambu", "Turkana", "West Pokot", "Samburu", "Trans Nzoia", "Uasin Gishu",
     "Elgeyo Marakwet", "Nandi", "Baringo", "Laikipia", "Nakuru", "Narok",
     "Kajiado", "Kericho", "Bomet", "Kakamega", "Vihiga", "Bungoma", "Busia",
     "Siaya", "Kisumu", "Homa Bay", "Migori", "Kisii", "Nyamira", "Nairobi"}

\* the County column the points of Kenya are given, lines 258-264
soil_county_column(file) ==
    {assign_county(p.lat, p.lon) : p \in {q \in file.points : q.country = "KE"}}

\* the County column with no filter applied to it
soil_county_labels_unfiltered(file) == soil_county_column(file)

\* the County column after filter(County != "Unknown"), line 267
soil_county_labels(file) == soil_county_column(file) \ {"Unknown"}

NoSoilCounties == [column |-> {}, kept |-> {}]

\* one row per county that has a point, repeated for every target year and month
aggregate_soil_data_by_county(file) ==
    IF ~file.present THEN NoneTable
    ELSE LET county_soil == soil_county_labels(file)
         IN  DataFrame([k \in Keys |->
                 IF k[1] \in county_soil /\ TargetYearLo <= k[2] /\ k[2] < TargetYearHi + 1
                 THEN 1 ELSE 0])

\* the raster files of data/chirps_data, by stem
ChirpsStems == {"chirps-v3.0.2019.01", "chirps-v3.0.201901",
                "chirps-v3.0.2018.02", "rainfall.2019.02"}

\* the (year, month) convert_chirps_to_csv reads from a stem; not ok when the
\* stem does not hold "chirps-v3.0."
chirps_date(stem) ==
    CASE stem = "chirps-v3.0.2019.01" -> [ok |-> TRUE, year |-> 2019, month |-> 1]
      [] stem = "chirps-v3.0.201901" -> [ok |-> TRUE, year |-> 2019, month |-> 1]
      [] stem = "chirps-v3.0.2018.02" -> [ok |-> TRUE, year |-> 2018, month |-> 2]
      [] stem = "rainfall.2019.02" -> [ok |-> FALSE, year |-> 0, month |-> 0]

\* the rows one raster gives: one for each county whose sample is not NaN
raster_rows(stem, nan) ==
    LET d == chirps_date(stem)
    IN  [k \in Keys |->
            IF /\ d.ok
               /\ TargetYearLo <= d.year /\ d.year <= TargetYearHi
               /\ k[2] = d.year /\ k[3] = d.month
               /\ k[1] \notin nan
            THEN 1 ELSE 0]

RECURSIVE RasterRows(_, _)
RasterRows(stems, nan) ==
    IF stems = {} THEN EmptyRows
    ELSE LET s == CHOOSE x \in stems : TRUE
             rest == RasterRows(stems \ {s}, nan)
             one == raster_rows(s, nan)
         IN  [k \in Keys |-> one[k] + rest[k]]

convert_chirps_to_csv(stems, nan) ==
    IF stems = {} THEN NoneTable
    ELSE LET rows == Table(RasterRows(stems, nan))
         IN  IF IsEmpty(rows) THEN NoneTable ELSE rows

\* a join that is skipped when the right dataset is None, and that raises
\* when the right dataset has no key columns
JoinIfPresent(l, r) ==
    IF l.kind = "raised" \/ r.kind = "None" THEN l
    ELSE IF r.kind = "nocolumns" THEN RaisedTable
    ELSE LeftJoin(l, r)

\* the joins of create_master_dataset, after the five datasets are read
JoinDatasets(t) ==
    IF \/ t.weather.kind = "None" \/ IsEmpty(t.weather)
       \/ t.dashboard.kind = "None" \/ IsEmpty(t.dashboard)
    THEN NoneTable
    ELSE LET m1 == LeftJoin(t.weather, t.dashboard)
             m2 == JoinIfPresent(m1, t.maize)
             m3 == JoinIfPresent(m2, t.soil)
         IN  JoinIfPresent(m3, t.rainfall)

PendingTable == [kind |-> "pending", rows |-> EmptyRows]

InitMaster ==
    /\ pcMaster = "weather"
    /\ tables = [weather |-> PendingTable, dashboard |-> PendingTable,
                 maize |-> PendingTable, soil |-> PendingTable,
                 rainfall |-> PendingTable]
    /\ soil_counties = NoSoilCounties
    /\ master = PendingTable

\* create_master_dataset, line 425
ReadWeather ==
    /\ pcMaster = "weather"
    /\ \E stems \in SUBSET WeatherStems, hours \in [YearMonths -> 0 .. MaxHourly] :
           tables' = [tables EXCEPT !.weather = aggregate_weather_data_monthly(stems, hours)]
    /\ pcMaster' = "dashboard"
    /\ UNCHANGED <<soil_counties, master>>
    /\ UNCHANGED <<stressVars, weatherVars, derivedVars, serviceVars, objectVars, trainVars, disk, dataset>>

\* create_master_dataset, line 426: an exception of the reader ends the run
ReadDashboard ==
    /\ pcMaster = "dashboard"
    /\ \E t \in DashboardFiles, i \in DashboardFiles, w \in DashboardFiles :
           LET d == merge_water_scarcity_dashboard_data(t, i, w)
           IN  /\ tables' = [tables EXCEPT !.dashboard = d]
               /\ IF d.kind = "raised"
                  THEN pcMaster' = "done" /\ master' = RaisedTable
                  ELSE pcMaster' = "maize" /\ UNCHANGED master
    /\ UNCHANGED soil_counties
    /\ UNCHANGED <<stressVars, weatherVars, derivedVars, serviceVars, objectVars, trainVars, disk, dataset>>

\* create_master_dataset, line 427
ReadMaize ==
    /\ pcMaster = "maize"
    /\ \E f \in MaizeFiles :
           tables' = [tables EXCEPT !.maize = integrate_maize_data(f)]
    /\ pcMaster' = "soil"
    /\ UNCHANGED <<soil_counties, master>>
    /\ UNCHANGED <<stressVars, weatherVars, derivedVars, serviceVars, objectVars, trainVars, disk, dataset>>

\* create_master_dataset, line 428
ReadSoil ==
    /\ pcMaster = "soil"
    /\ \E f \in SoilFiles :
           /\ tables' = [tables EXCEPT !.soil = aggregate_soil_data_by_county(f)]
           /\ soil_counties' = IF ~f.present THEN NoSoilCounties
                                ELSE [column |-> soil_county_column(f),
                                      kept |-> soil_county_labels(f)]
    /\ pcMaster' = "rainfall"
    /\ UNCHANGED master
    /\ UNCHANGED <<stressVars, weatherVars, derivedVars, serviceVars, objectVars, trainVars, disk, dataset>>

\* create_master_dataset, line 429
ReadRainfall ==
    /\ pcMaster = "rainfall"
    /\ \E stems \in SUBSET ChirpsStems, nan \in SUBSET Counties :
           tables' = [tables EXCEPT !.rainfall = convert_chirps_to_csv(stems, nan)]
    /\ pcMaster' = "join"
    /\ UNCHANGED <<soil_counties, master>>
    /\ UNCHANGED <<stressVars, weatherVars, derivedVars, serviceVars, objectVars, trainVars, disk, dataset>>

\* create_master_dataset, lines 431-478
CreateMaster ==
    /\ pcMaster = "join"
    /\ master' = JoinDatasets(tables)
    /\ pcMaster' = "done"
    /\ UNCHANGED <<tables, soil_counties>>
    /\ UNCHANGED <<stressVars, weatherVars, derivedVars, serviceVars, objectVars, trainVars, disk, dataset>>

(***************************************************************************)
(* integrate_all_datasets.py: the two spatial samplers on their own, the   *)
(* classification of one soil point and the conversion of the rasters.     *)
(***************************************************************************)
\* latitudes and longitudes of soil points, in tenths of a degree: inside one
\* rectangle, inside several, and outside all of them
SoilLatitudes == {-40, -10, -8, -3, 0, 5, 100}
SoilLongitudes == {100, 342, 350, 357, 360, 392, 400}
SoilGrid == [lat : SoilLatitudes, lon : SoilLongitudes]

\* what the pixel under a county's centroid holds: a rainfall value, NaN, or
\* the nodata value of the raster (src.read(1) does not mask it)
SampleKinds == {"value", "nan", "nodata"}
Rasters == [stems : SUBSET ChirpsStems, samples : [Counties -> SampleKinds]]

InitSpatial ==
    /\ soil_point \in SoilGrid
    /\ soil_county = ""
    /\ raster \in Rasters
    /\ rainfall_data = PendingTable

\* aggregate_soil_data_by_county, lines 258-264: the County of one point
AssignCounty ==
    /\ soil_county = ""
    /\ soil_county' = assign_county(soil_point.lat, soil_point.lon)
    /\ UNCHANGED <<soil_point, raster, rainfall_data, enhanceVars, metricVars, moreVars>>
    /\ UNCHANGED <<stressVars, weatherVars, masterVars, serviceVars, objectVars, trainVars,
                   disk, dataset>>

\* convert_chirps_to_csv: only a sample that np.isnan holds for is skipped
ConvertChirps ==
    /\ rainfall_data.kind = "pending"
    /\ rainfall_data' = convert_chirps_to_csv(
                            raster.stems, {c \in Counties : raster.samples[c] = "nan"})
    /\ UNCHANGED <<soil_point, soil_county, raster, enhanceVars, metricVars, moreVars>>
    /\ UNCHANGED <<stressVars, weatherVars, masterVars, serviceVars, objectVars, trainVars,
                   disk, dataset>>

(***************************************************************************)
(* integrate_all_datasets.py: calculate_composite_metrics, on one row of   *)
(* the master table.  The stress index is in thousandths and so is the     *)
(* water scarcity score; the other scores are whole numbers.               *)
(***************************************************************************)
DefaultScarcity == 50
DefaultRisk == 25
DefaultPriority == 50
HighPriority == 75
LowPriority == 25

\* a null string
NoneText == [isNone |-> TRUE, v |-> ""]

MasterRows ==
    [Monthly_Water_Stress_Index : {NoneValue} \cup {Value(s) : s \in {0, 730, 795, 860, 1000}},
     Monthly_Crop_Yield_Impact_Percent : {NoneValue} \cup {Value(p) : p \in {0, 5, 15, 30}},
     Monthly_Irrigation_Needed_Real : {NoneText} \cup {Value(f) : f \in {"Yes", "No", "Unknown"}}]

NoComposite ==
    [computed |-> FALSE, Water_Scarcity_Score |-> NoneValue,
     Agricultural_Risk_Index |-> NoneValue, Irrigation_Priority_Score |-> NoneValue]

\* the expressions without their defaults: a null input gives a null score
calculate_composite_metrics_null(row) ==
    [computed |-> TRUE,
     Water_Scarcity_Score |->
         IF row.Monthly_Water_Stress_Index.isNone THEN NoneValue
         ELSE Value(row.Monthly_Water_Stress_Index.v * 100),
     Agricultural_Risk_Index |-> row.Monthly_Crop_Yield_Impact_Percent,
     Irrigation_Priority_Score |->
         IF row.Monthly_Irrigation_Needed_Real.isNone THEN NoneValue
         ELSE IF row.Monthly_Irrigation_Needed_Real.v = "Yes" THEN Value(HighPriority)
         ELSE Value(LowPriority)]

\* calculate_composite_metrics, lines 484-511: the three columns it adds
calculate_composite_metrics(row) ==
    [computed |-> TRUE,
     Water_Scarcity_Score |->
         IF row.Monthly_Water_Stress_Index.isNone THEN Value(DefaultScarcity * 1000)
         ELSE Value(row.Monthly_Water_Stress_Index.v * 100),
     Agricultural_Risk_Index |->
         IF row.Monthly_Crop_Yield_Impact_Percent.isNone THEN Value(DefaultRisk)
         ELSE Value(row.Monthly_Crop_Yield_Impact_Percent.v),
     Irrigation_Priority_Score |->
         IF row.Monthly_Irrigation_Needed_Real.isNone THEN Value(DefaultPriority)
         ELSE IF row.Monthly_Irrigation_Needed_Real.v = "Yes" THEN Value(HighPriority)
         ELSE Value(LowPriority)]

InitMetrics ==
    /\ master_row \in MasterRows
    /\ composite = NoComposite

\* create_master_dataset, line 475
CalculateCompositeMetrics ==
    /\ ~composite.computed
    /\ composite' = calculate_composite_metrics(master_row)
    /\ UNCHANGED <<master_row, enhanceVars, spatialVars, moreVars>>
    /\ UNCHANGED <<stressVars, weatherVars, masterVars, serviceVars, objectVars, trainVars,
                   disk, dataset>>

(***************************************************************************)
(* scripts/enhance_training_data.py: create_enhanced_dataset.  A row of    *)
(* the annual table is its Maize_Yield_tonnes_ha, in hundredths of a tonne *)
(* per hectare, or NaN (None) when no month of the county-year has a       *)
(* yield.  A quantile is kept as four times its value and a bound of the   *)
(* IQR method as eight times its value, which are whole numbers.           *)
(***************************************************************************)
MaxRows == 4

domain_lower == 80
domain_upper == 500

YieldValues == {79, 80, 250, 500, 501}
AnnualYields == {Value(y) : y \in YieldValues} \cup {NoneValue}
AnnualTables == UNION {[1 .. n -> AnnualYields] : n \in 1 .. MaxRows}

\* the rows that have a yield
NotNull(ys) == {i \in 1 .. Len(ys) : ~ys[i].isNone}

\* the k-th smallest yield, k counted from 0, NaN left out
KthSmallest(ys, k) ==
    LET vs == {ys[i].v : i \in NotNull(ys)}
    IN  CHOOSE v \in vs :
            /\ Cardinality({i \in NotNull(ys) : ys[i].v < v}) <= k
            /\ k < Cardinality({i \in NotNull(ys) : ys[i].v <= v})

\* Series.quantile(quarters / 4) with its linear interpolation, times four:
\* the position is (n - 1) * quarters / 4 in the sorted values that are not NaN
Quantile4(ys, quarters) ==
    LET n == Cardinality(NotNull(ys))
        pos4 == (n - 1) * quarters
        k == pos4 \div 4
        r == pos4 % 4
        lo == KthSmallest(ys, k)
    IN  IF r = 0 THEN 4 * lo
        ELSE 4 * lo + r * (KthSmallest(ys, k + 1) - lo)

\* lines 152-156, times eight; none when every yield is NaN
IQRBounds(ys) ==
    IF NotNull(ys) = {} THEN [isNone |-> TRUE, lower8 |-> 0, upper8 |-> 0]
    ELSE LET q1 == Quantile4(ys, 1)
             q3 == Quantile4(ys, 3)
             iqr == q3 - q1
         IN  [isNone |-> FALSE, lower8 |-> 2 * q1 - 3 * iqr, upper8 |-> 2 * q3 + 3 * iqr]

\* the filters with the lower end of the domain band left out
yield_filters_exclusive(ys) ==
    LET b == IQRBounds(ys)
    IN  {i \in NotNull(ys) :
            /\ ~b.isNone
            /\ ys[i].v > domain_lower /\ ys[i].v <= domain_upper
            /\ 8 * ys[i].v >= b.lower8 /\ 8 * ys[i].v <= b.upper8}

\* lines 163-168: the index of the rows that stay.  A comparison with NaN is
\* False, so a row without a yield goes, and every row goes when the bounds
\* are NaN
yield_filters(ys) ==
    LET b == IQRBounds(ys)
    IN  {i \in NotNull(ys) :
            /\ ~b.isNone
            /\ ys[i].v >= domain_lower /\ ys[i].v <= domain_upper
            /\ 8 * ys[i].v >= b.lower8 /\ 8 * ys[i].v <= b.upper8}

NoEnhancedData == [made |-> FALSE, index |-> {}]

InitEnhance ==
    /\ annual_data \in AnnualTables
    /\ enhanced_data = NoEnhancedData

\* create_enhanced_dataset, lines 147-215
CreateEnhancedDataset ==
    /\ ~enhanced_data.made
    /\ enhanced_data' = [made |-> TRUE, index |-> yield_filters(annual_data)]
    /\ UNCHANGED <<annual_data, metricVars, spatialVars, moreVars>>
    /\ UNCHANGED <<stressVars, weatherVars, masterVars, serviceVars, objectVars, trainVars,
                   disk, dataset>>

(***************************************************************************)
(* src/models/maize_resilience_model.py: MaizeResilienceModel.  The fitted *)
(* estimators of scikit-learn are outside the repository: a regressor is   *)
(* its class, whether it is fitted, the number of features it was fitted   *)
(* on and a value (bias) that stands for what it learnt; a scaler is       *)
(* whether it is fitted, its number of features and the mean it subtracts; *)
(* an encoder is whether it is fitted and its sorted categories.           *)
(***************************************************************************)
BENCHMARK_YIELD == 2500

\* what a fit can learn: predictions below zero, inside the scale and above
\* the benchmark
Fits == {-900, 1234, 2460}
\* the fits of the files found on disk, other than the county-specific one
FileFits == {1234}
TrainingCounties == <<"Homa Bay", "Nakuru">>
RequestCounties == {"Nakuru", "Homa Bay", "Atlantis"}

BasicFeatures == <<"Annual_Rainfall_mm", "Soil_pH", "Soil_Organic_Carbon">>
EnhancedFeatures ==
    <<"Annual_Rainfall_mm", "Avg_Rainfall_mm", "Rainfall_Std_mm", "Avg_Temperature_C",
      "Temperature_Std_C", "Avg_Humidity_Percent", "Humidity_Std_Percent", "Soil_pH",
      "Soil_Organic_Carbon", "Soil_Clay_Content", "Growing_Season_Months",
      "Water_Stress_Index", "Soil_Quality_Score", "Climate_Variability">>

Regressor(kind, fitted, n, bias) ==
    [kind |-> kind, fitted |-> fitted, n |-> n, bias |-> bias]
NoRegressor == Regressor("None", FALSE, 0, 0)
Scaler(fitted, n, mean) == [kind |-> "StandardScaler", fitted |-> fitted, n |-> n, mean |-> mean]
NoScaler == [kind |-> "None", fitted |-> FALSE, n |-> 0, mean |-> 0]
Encoder(fitted, cats) == [kind |-> "OneHotEncoder", fitted |-> fitted, cats |-> cats]
NoEncoder == [kind |-> "None", fitted |-> FALSE, cats |-> <<>>]
FeatureNames(numeric, counties) == [isNone |-> FALSE, numeric |-> numeric, counties |-> counties]
NoFeatureNames == [isNone |-> TRUE, numeric |-> <<>>, counties |-> <<>>]

\* hasattr(model, 'feature_importances_'): the tree ensembles have it once fitted
HasFeatureImportances(reg) == reg.kind \in {"RF", "GB"} /\ reg.fitted

\* a number of the county statistics, or NaN
Num(v) == [nan |-> FALSE, v |-> v]
NaN == [nan |-> TRUE, v |-> 0]

NoStats ==
    [inIndex |-> FALSE, temp |-> NaN, temp_std |-> NaN, hum |-> NaN, hum_std |-> NaN,
     clay |-> NaN, precip |-> NaN, precip_std |-> NaN, variability |-> NaN, quality |-> NaN]

\* what load_county_data computes from the master dataset: Nakuru has every
\* statistic, Homa Bay has a single row and so no standard deviation
DatasetStats ==
    [c \in RequestCounties |->
        CASE c = "Nakuru" ->
                 [inIndex |-> TRUE, temp |-> Num(18), temp_std |-> Num(3), hum |-> Num(65),
                  hum_std |-> Num(8), clay |-> Num(30), precip |-> Num(70),
                  precip_std |-> Num(40), variability |-> Num(51), quality |-> Num(1190)]
          [] c = "Homa Bay" ->
                 [inIndex |-> TRUE, temp |-> Num(23), temp_std |-> NaN, hum |-> Num(72),
                  hum_std |-> NaN, clay |-> NaN, precip |-> Num(95),
                  precip_std |-> NaN, variability |-> NaN, quality |-> NaN]
          [] OTHER -> NoStats]

NoCountyData == [isNone |-> TRUE, stats |-> [c \in RequestCounties |-> NoStats]]
Datasets ==
    { [readable |-> FALSE, stats |-> [c \in RequestCounties |-> NoStats]],
      [readable |-> TRUE, stats |-> DatasetStats] }

\* MaizeResilienceModel.__init__
NewModel ==
    [exists |-> TRUE,
     model |-> Regressor("RF", FALSE, 0, 0),
     scaler |-> Scaler(FALSE, 0, 0),
     encoder |-> Encoder(FALSE, <<>>),
     feature_names |-> NoFeatureNames,
     is_trained |-> FALSE,
     model_type |-> "county_specific_random_forest",
     county_data |-> NoCountyData]

\* the module global of fastapi_app before lifespan has run: model = None
NoModel == [NewModel EXCEPT !.exists = FALSE]

\* load_county_data: the object with its county statistics read from the master
\* dataset; an unreadable dataset leaves the object as it is
load_county_data(m, ds) ==
    IF ds.readable
    THEN [m EXCEPT !.county_data = [isNone |-> FALSE, stats |-> ds.stats]]
    ELSE m

\* prepare_features: fits the encoder on the counties of the training frame
prepare_features(m) ==
    [m EXCEPT !.encoder = Encoder(TRUE, TrainingCounties),
              !.feature_names = FeatureNames(BasicFeatures, TrainingCounties)]

\* where train raises when the data make it raise at failure ("split", "scale",
\* "fit", "evaluate") or not at all ("none"): an object whose regressor is None
\* (a loaded file can leave it so) raises at the fit of line 137 at the latest
TrainFailure(m, failure) ==
    IF failure \in {"evaluate", "none"} /\ m.model.kind = "None" THEN "fit" ELSE failure

\* train, lines 123-161
train(m, failure, fit) ==
    LET n == Len(BasicFeatures) + Len(m.encoder.cats)
        scaled == [m EXCEPT !.scaler = Scaler(TRUE, n, 1)]
        fitted == [scaled EXCEPT !.model = Regressor(m.model.kind, TRUE, n, fit)]
        f == TrainFailure(m, failure)
    IN  CASE f = "split" -> m
          [] f = "scale" -> m
          [] f = "fit" -> scaled
          [] f = "evaluate" -> fitted
          [] OTHER -> [fitted EXCEPT !.is_trained = TRUE]

TrainFailures == {"split", "scale", "fit", "evaluate", "none"}

RECURSIVE SeqSum(_)
SeqSum(xs) == IF xs = <<>> THEN 0 ELSE Head(xs) + SeqSum(Tail(xs))

\* Python's round(x, ndigits) on a value held in units: the nearest multiple of
\* step, a tie going to the even multiple
RoundHalfEven(x, step) ==
    LET q == x \div step
        r == x % step
    IN  IF 2 * r < step THEN q
        ELSE IF 2 * r > step THEN q + 1
        ELSE IF q % 2 = 0 THEN q ELSE q + 1

\* lines 183-239: the county's statistics with NaN replaced, or the defaults
\* when the county is not in the loaded data (soil_ph, organic_carbon in tenths,
\* the soil quality score in hundredths)
DefaultQuality(soil_ph, organic_carbon) == soil_ph * 3 + organic_carbon * 4 + 600

county_features(cd, rainfall, soil_ph, organic_carbon, county) ==
    LET st == cd.stats[county]
        found == ~cd.isNone /\ st.inIndex
        nanTemp == st.temp.nan \/ st.temp_std.nan
        nanHum == st.hum.nan \/ st.hum_std.nan
        nanPrecip == st.precip.nan \/ st.precip_std.nan
    IN  IF found
        THEN [avg_temperature |-> IF nanTemp THEN 25 ELSE st.temp.v,
              temp_std |-> IF nanTemp THEN 5 ELSE st.temp_std.v,
              avg_humidity |-> IF nanHum THEN 70 ELSE st.hum.v,
              humidity_std |-> IF nanHum THEN 10 ELSE st.hum_std.v,
              avg_clay_content |-> IF st.clay.nan THEN 20 ELSE st.clay.v,
              avg_precipitation |-> IF nanPrecip THEN rainfall ELSE st.precip.v,
              precip_std |-> IF nanPrecip THEN 50 ELSE st.precip_std.v,
              climate_variability |-> IF st.variability.nan THEN 65 ELSE st.variability.v,
              soil_quality_score |-> IF st.quality.nan
                                     THEN DefaultQuality(soil_ph, organic_carbon)
                                     ELSE st.quality.v]
        ELSE [avg_temperature |-> 25, temp_std |-> 5, avg_humidity |-> 70,
              humidity_std |-> 10, avg_clay_content |-> 20,
              avg_precipitation |-> rainfall, precip_std |-> 50,
              climate_variability |-> 65,
              soil_quality_score |-> DefaultQuality(soil_ph, organic_carbon)]

\* lines 241-263
X_numerical(m, cd, rainfall, soil_ph, organic_carbon, county) ==
    LET f == county_features(cd, rainfall, soil_ph, organic_carbon, county)
    IN  IF m.model_type = "enhanced_county_specific"
        THEN <<rainfall, f.avg_precipitation, f.precip_std, f.avg_temperature,
               f.temp_std, f.avg_humidity, f.humidity_std, soil_ph, organic_carbon,
               f.avg_clay_content, 3, rainfall \div (f.avg_temperature + 1),
               f.soil_quality_score, f.climate_variability>>
        ELSE <<rainfall, soil_ph, organic_carbon>>

\* OneHotEncoder(handle_unknown='ignore').transform: a county that is not a
\* category is encoded as the all-zero row
OneHot(enc, county) ==
    [i \in 1 .. Len(enc.cats) |-> IF enc.cats[i] = county THEN 1 ELSE 0]

\* StandardScaler.transform
ScalerTransform(sc, xs) == [i \in 1 .. Len(xs) |-> xs[i] - sc.mean]

\* the regressor's predict: a fixed function of the regressor and the features
RegressorPredict(reg, xs) == reg.bias + (SeqSum(xs) % 100)

\* the score without its clamp
ResilienceScoreUnclamped(predicted_yield) ==
    (predicted_yield * 100 * 1000) \div BENCHMARK_YIELD

\* lines 282-284, in thousandths of a percent
ResilienceScore(predicted_yield) ==
    LET raw_score == (predicted_yield * 100 * 1000) \div BENCHMARK_YIELD
    IN  Max(0, Min(100 * 1000, raw_score))

Raise(exc) ==
    [status |-> "raise", exc |-> exc, yield |-> 0, resilience_score |-> 0,
     predicted_yield |-> 0, county_rows |-> <<>>]

\* predict_resilience_score, lines 176-302, cd being the county data after
\* lines 180-181.  yield is what the regressor predicted (thousandths of a
\* tonne per hectare); the dict holds resilience_score in tenths of a percent
\* and predicted_yield in hundredths.
predict_resilience_score(m, cd, rainfall, soil_ph, organic_carbon, county) ==
    IF ~m.is_trained THEN Raise("ValueError")
    ELSE IF m.encoder.kind = "None" \/ ~m.encoder.fitted THEN Raise("AttributeError")
    ELSE LET X_county_encoded == OneHot(m.encoder, county)
             X_combined == X_numerical(m, cd, rainfall, soil_ph, organic_carbon, county)
                               \o X_county_encoded
         IN  IF m.scaler.kind = "None" THEN Raise("AttributeError")
             ELSE IF ~m.scaler.fitted \/ m.scaler.n # Len(X_combined) THEN Raise("ValueError")
             ELSE IF m.model.kind = "None" THEN Raise("AttributeError")
             ELSE IF ~m.model.fitted \/ m.model.n # Len(X_combined) THEN Raise("ValueError")
             ELSE IF ~HasFeatureImportances(m.model) THEN Raise("AttributeError")
             ELSE IF m.feature_names.isNone THEN Raise("TypeError")
             ELSE LET y == RegressorPredict(m.model, ScalerTransform(m.scaler, X_combined))
                  IN  [status |-> "ok", exc |-> "",
                       yield |-> y,
                       resilience_score |-> RoundHalfEven(ResilienceScore(y), 100),
                       predicted_yield |-> RoundHalfEven(y, 10),
                       county_rows |-> X_county_encoded]

\* the object after a call of predict_resilience_score: lines 180-181 load the
\* county data when there is none
AfterPredict(m, ds) ==
    IF m.is_trained /\ m.county_data.isNone THEN load_county_data(m, ds) ELSE m

\* the outcome of a call on object m with the dataset ds on disk
Predict(m, ds, req) ==
    predict_resilience_score(m, AfterPredict(m, ds).county_data,
                             req.rainfall, req.soil_ph, req.organic_carbon, req.county)

Requests ==
    [rainfall : {800}, soil_ph : {65}, organic_carbon : {21}, county : RequestCounties]

(***************************************************************************)
(* The model files.  A file is the dict that was dumped: keys says which   *)
(* keys the dict has.                                                      *)
(***************************************************************************)
AbsentBundle ==
    [present |-> FALSE, keys |-> {}, model |-> NoRegressor, scaler |-> NoScaler,
     encoder |-> NoEncoder, feature_names |-> NoFeatureNames, is_trained |-> FALSE,
     model_type |-> ""]

\* a save that writes a new scaler in place of the fitted one
save_model_new_scaler(m) ==
    [present |-> TRUE,
     keys |-> {"model", "scaler", "encoder", "feature_names", "is_trained", "model_type"},
     model |-> m.model, scaler |-> Scaler(FALSE, 0, 0), encoder |-> m.encoder,
     feature_names |-> m.feature_names, is_trained |-> m.is_trained,
     model_type |-> m.model_type]

\* MaizeResilienceModel.save_model, lines 309-318 (the caller has checked
\* is_trained)
save_model(m) ==
    [present |-> TRUE,
     keys |-> {"model", "scaler", "encoder", "feature_names", "is_trained", "model_type"},
     model |-> m.model, scaler |-> m.scaler, encoder |-> m.encoder,
     feature_names |-> m.feature_names, is_trained |-> m.is_trained,
     model_type |-> m.model_type]

\* MaizeResilienceModel.load_model, lines 323-345
load_model(m, b) ==
    LET hasEncoder == "encoder" \in b.keys
        encoder == IF hasEncoder THEN b.encoder ELSE NoEncoder
        model_type == IF hasEncoder /\ "model_type" \in b.keys THEN b.model_type ELSE "legacy"
        is_trained == IF "is_trained" \in b.keys
                      THEN b.is_trained
                      ELSE /\ b.model.kind # "None"
                           /\ HasFeatureImportances(b.model)
                           /\ ~b.feature_names.isNone
    IN  [m EXCEPT !.model = b.model, !.scaler = b.scaler,
                  !.feature_names = b.feature_names, !.encoder = encoder,
                  !.model_type = model_type, !.is_trained = is_trained]

(***************************************************************************)
(* The training scripts and the files they write.                          *)
(***************************************************************************)
\* retrain_with_enhanced_data.py: EnhancedModelTrainer.__init__
NewTrainer ==
    [best_model |-> NoRegressor, best_encoder |-> NoEncoder, best_scaler |-> NoScaler,
     feature_names |-> NoFeatureNames, is_trained |-> FALSE]

\* EnhancedModelTrainer.prepare_features
trainer_prepare_features(t) ==
    [t EXCEPT !.best_encoder = Encoder(TRUE, TrainingCounties),
              !.feature_names = FeatureNames(EnhancedFeatures, TrainingCounties)]

Candidates == <<"RF", "GB", "LR", "SVR">>
MaxR2 == 2
\* how one candidate ends: it raises, or it is fitted and has a test score
CandidateOutcomes == [ok : BOOLEAN, r2 : 1 .. MaxR2]
NoOutcomes == [i \in 1 .. Len(Candidates) |-> [ok |-> FALSE, r2 |-> 1]]

RECURSIVE BestCandidate(_, _, _, _)
\* lines 147-212: the candidate kept as best_model after candidates i..4, the
\* best so far being best (0 for none) with score best_score
BestCandidate(outcomes, i, best, best_score) ==
    IF i > Len(Candidates) THEN best
    ELSE IF outcomes[i].ok /\ (best = 0 \/ outcomes[i].r2 > best_score)
         THEN BestCandidate(outcomes, i + 1, i, outcomes[i].r2)
         ELSE BestCandidate(outcomes, i + 1, best, best_score)

\* train_multiple_models: failure says where it raised before the loop
\* ("split", "scale") or "none"
train_multiple_models(t, failure, outcomes, fit) ==
    LET n == Len(t.feature_names.numeric) + Len(t.best_encoder.cats)
        best == BestCandidate(outcomes, 1, 0, 0)
        scaled == [t EXCEPT !.best_scaler = Scaler(TRUE, n, 1)]
    IN  CASE failure = "split" -> t
          [] failure = "scale" -> [t EXCEPT !.best_scaler = Scaler(FALSE, 0, 0)]
          [] OTHER ->
                 [scaled EXCEPT
                     !.best_model = IF best = 0 THEN t.best_model
                                    ELSE Regressor(Candidates[best], TRUE, n, fit),
                     !.is_trained = TRUE]

\* EnhancedModelTrainer.save_enhanced_model, lines 303-314
save_enhanced_model(t) ==
    [present |-> TRUE,
     keys |-> {"model", "encoder", "scaler", "feature_names", "is_trained",
               "model_type", "training_results"},
     model |-> t.best_model, scaler |-> t.best_scaler, encoder |-> t.best_encoder,
     feature_names |-> t.feature_names, is_trained |-> TRUE,
     model_type |-> "enhanced_county_specific"]

\* fix_model_county_specific.py: what main writes when training succeeds
save_improved_model(fit) ==
    LET n == Len(BasicFeatures) + Len(TrainingCounties)
    IN  [present |-> TRUE,
         keys |-> {"model", "encoder", "scaler", "feature_names", "is_trained", "model_type"},
         model |-> Regressor("RF", TRUE, n, fit), scaler |-> Scaler(TRUE, n, 1),
         encoder |-> Encoder(TRUE, TrainingCounties),
         feature_names |-> FeatureNames(BasicFeatures, TrainingCounties),
         is_trained |-> TRUE, model_type |-> "county_specific_random_forest"]

\* ai_model_development.py: MaizeResilienceModel.save_model, lines 363-372
ai_save_model(fit) ==
    LET n == Len(BasicFeatures)
    IN  [present |-> TRUE,
         keys |-> {"model", "scaler", "feature_names", "target_name", "training_date",
                   "model_type"},
         model |-> Regressor("RF", TRUE, n, fit), scaler |-> Scaler(TRUE, n, 1),
         encoder |-> NoEncoder, feature_names |-> FeatureNames(BasicFeatures, <<>>),
         is_trained |-> FALSE, model_type |-> "Random Forest Regressor"]

\* quick_data_analysis_and_modeling.py: save_model, lines 497-505
quick_save_model(fit) ==
    [ai_save_model(fit) EXCEPT
        !.keys = {"model", "scaler", "feature_names", "target_name", "training_date"},
        !.model_type = ""]

EnhancedPath == "models/maize_resilience_enhanced.joblib"
CountyPath == "models/maize_resilience_county_specific.joblib"
LegacyPath == "models/maize_resilience_rf_model.joblib"
SavePath == "models/saved_by_save_model.joblib"
model_paths == <<EnhancedPath, CountyPath, LegacyPath>>
AllPaths == {EnhancedPath, CountyPath, LegacyPath, SavePath}

\* the trainers save_enhanced_model can be called on: main calls prepare_features,
\* train_multiple_models and, when that returned, save_enhanced_model
TrainedTrainers ==
    {train_multiple_models(trainer_prepare_features(NewTrainer), "none", o, fit) :
        o \in [1 .. Len(Candidates) -> CandidateOutcomes], fit \in FileFits}

EnhancedBundles == {save_enhanced_model(t) : t \in TrainedTrainers}
CountyBundles == {save_improved_model(fit) : fit \in Fits}
LegacyBundles ==
    {ai_save_model(fit) : fit \in FileFits} \cup {quick_save_model(fit) : fit \in FileFits}
ScriptBundles == EnhancedBundles \cup CountyBundles \cup LegacyBundles

EmptyDisk == [p \in AllPaths |-> AbsentBundle]

\* the disks the training scripts can leave behind
ScriptDisks ==
    {[EmptyDisk EXCEPT ![EnhancedPath] = e, ![CountyPath] = c, ![LegacyPath] = l] :
        e \in EnhancedBundles \cup {AbsentBundle},
        c \in CountyBundles \cup {AbsentBundle},
        l \in LegacyBundles \cup {AbsentBundle}}

(***************************************************************************)
(* src/api/fastapi_app.py and src/api/app.py: startup and the prediction   *)
(* endpoints.                                                              *)
(***************************************************************************)
MaxBatch == 2

RECURSIVE LoadFirst(_, _, _)
\* lifespan, lines 91-108: the first existing path is loaded, then the loop ends
LoadFirst(d, ds, i) ==
    IF i > Len(model_paths) THEN [model |-> NewModel, loaded |-> <<>>]
    ELSE IF d[model_paths[i]].present
         THEN LET m == load_model(NewModel, d[model_paths[i]])
              IN  [model |-> IF m.is_trained THEN load_county_data(m, ds) ELSE m,
                   loaded |-> <<model_paths[i]>>]
         ELSE LoadFirst(d, ds, i + 1)

\* a startup that prefers the legacy file
lifespan_legacy_first(d, ds) ==
    IF d[LegacyPath].present
    THEN LET m == load_model(NewModel, d[LegacyPath])
         IN  [model |-> IF m.is_trained THEN load_county_data(m, ds) ELSE m,
              loaded |-> <<LegacyPath>>]
    ELSE LoadFirst(d, ds, 1)

\* lifespan, lines 80-112
lifespan(d, ds) == LoadFirst(d, ds, 1)

\* what a handler body does: it returns a response, or an exception leaves it
Return(status) == [kind |-> "return", exc |-> "", status |-> status]
HTTPException(status) == [kind |-> "raise", exc |-> "HTTPException", status |-> status]
Raises(exc) == [kind |-> "raise", exc |-> exc, status |-> 0]

\* "except Exception as e: ... raise HTTPException(status_code=500, ...)": every
\* exception the body raises is an Exception, HTTPException included
ExceptException(r) == IF r.kind = "raise" THEN HTTPException(500) ELSE r

\* the status the framework answers with
StatusOf(r) == IF r.exc \in {"", "HTTPException"} THEN r.status ELSE 500

\* "if not model or not model.is_trained"
NotReady(m) == ~m.exists \/ ~m.is_trained

\* predict_resilience (fastapi_app.py), the body of the try, lines 358-429
predict_body(m, outcome) ==
    IF NotReady(m) THEN HTTPException(503)
    ELSE IF outcome.status = "raise" THEN Raises(outcome.exc)
    ELSE Return(200)

fastapi_predict_status(m, outcome) == StatusOf(ExceptException(predict_body(m, outcome)))

\* a loop that an item's exception ends: the results before the first failure
batch_results_until_error(m, ds, reqs) ==
    LET failed == {i \in 1 .. Len(reqs) : Predict(m, ds, reqs[i]).status # "ok"}
        n == IF failed = {} THEN Len(reqs)
             ELSE (CHOOSE i \in failed : \A j \in failed : i <= j) - 1
    IN  [i \in 1 .. n |->
            [input |-> reqs[i], outcome |-> Predict(m, ds, reqs[i]), status |-> "success"]]

\* batch_predict, lines 469-508: one result for each request, in order
batch_results(m, ds, reqs) ==
    [i \in 1 .. Len(reqs) |->
        LET o == Predict(m, ds, reqs[i])
        IN  [input |-> reqs[i], outcome |-> o,
             status |-> IF o.status = "ok" THEN "success" ELSE "error"]]

CountStatus(results, st) == Cardinality({i \in 1 .. Len(results) : results[i].status = st})

\* batch_predict, the body of the try, lines 461-562
batch_body(m) == IF NotReady(m) THEN HTTPException(503) ELSE Return(200)

fastapi_batch_status(m) == StatusOf(ExceptException(batch_body(m)))

\* predict_resilience (app.py), lines 64-136, on a request that passes the
\* validation of lines 67-96: line 105 calls predict_resilience_score without
\* its county argument, a TypeError, which "except Exception" answers with 500
flask_predict_status(m) ==
    IF ~m.is_trained THEN 503 ELSE 500

NoResponse ==
    [endpoint |-> "", status |-> 0, ready |-> FALSE, requests |-> <<>>,
     results |-> <<>>, total_processed |-> 0, successful_count |-> 0, failed_count |-> 0]

\* the bodies of the batch requests: up to MaxBatch predictions, for a county
\* of the training data or for one that is not
BatchItems == {req \in Requests : req.county \in {"Nakuru", "Atlantis"}}
BatchRequests == UNION {[1 .. n -> BatchItems] : n \in 1 .. MaxBatch}

InitService ==
    /\ model = NoModel
    /\ loaded = <<>>
    /\ resp = NoResponse
    /\ disk \in ScriptDisks
    /\ dataset \in Datasets

\* lifespan: the service starts
Lifespan ==
    /\ ~model.exists
    /\ LET r == lifespan(disk, dataset)
       IN  model' = r.model /\ loaded' = r.loaded
    /\ UNCHANGED <<resp, disk, dataset>>
    /\ UNCHANGED <<stressVars, weatherVars, derivedVars, masterVars, objectVars, trainVars>>

\* POST /api/predict of the FastAPI service
FastapiPredict ==
    \E req \in Requests :
        LET called == ~NotReady(model)
            o == Predict(model, dataset, req)
        IN  /\ resp' = [NoResponse EXCEPT
                           !.endpoint = "fastapi/predict",
                           !.status = fastapi_predict_status(model, o),
                           !.ready = ~NotReady(model),
                           !.requests = <<req>>,
                           !.results = IF called
                                       THEN <<[input |-> req, outcome |-> o,
                                               status |-> IF o.status = "ok"
                                                          THEN "success" ELSE "error"]>>
                                       ELSE <<>>]
            /\ model' = IF called THEN AfterPredict(model, dataset) ELSE model
            /\ UNCHANGED <<loaded, disk, dataset>>
            /\ UNCHANGED <<stressVars, weatherVars, derivedVars, masterVars, objectVars, trainVars>>

\* POST /api/predict/batch of the FastAPI service
FastapiBatchPredict ==
    \E reqs \in BatchRequests :
        LET called == ~NotReady(model)
            results == IF called THEN batch_results(model, dataset, reqs) ELSE <<>>
            status == fastapi_batch_status(model)
        IN  /\ resp' = [NoResponse EXCEPT
                           !.endpoint = "fastapi/predict/batch",
                           !.status = status,
                           !.ready = ~NotReady(model),
                           !.requests = reqs,
                           !.results = results,
                           !.total_processed = Len(results),
                           !.successful_count = CountStatus(results, "success"),
                           !.failed_count = CountStatus(results, "error")]
            /\ model' = IF called THEN AfterPredict(model, dataset) ELSE model
            /\ UNCHANGED <<loaded, disk, dataset>>
            /\ UNCHANGED <<stressVars, weatherVars, derivedVars, masterVars, objectVars, trainVars>>

\* POST /api/predict of the Flask service, whose model object is the one its
\* module creates and nothing trains or loads
FlaskPredict ==
    \E req \in Requests :
        /\ resp' = [NoResponse EXCEPT
                       !.endpoint = "flask/predict",
                       !.status = flask_predict_status(NewModel),
                       !.ready = NewModel.is_trained,
                       !.requests = <<req>>]
        /\ UNCHANGED <<model, loaded, disk, dataset>>
        /\ UNCHANGED <<stressVars, weatherVars, derivedVars, masterVars, objectVars, trainVars>>

\* integrate_all_datasets.py main, lines 526-527, run while the service is up:
\* it writes data/master_water_scarcity_dataset.csv, the file that
\* load_county_data reads
WriteMasterDataset ==
    /\ ~dataset.readable
    /\ dataset' = [readable |-> TRUE, stats |-> DatasetStats]
    /\ UNCHANGED <<model, loaded, resp, disk>>
    /\ UNCHANGED <<stressVars, weatherVars, derivedVars, masterVars, objectVars, trainVars>>

(***************************************************************************)
(* A MaizeResilienceModel and an EnhancedModelTrainer in the hands of the  *)
(* scripts: training, saving and loading.                                  *)
(***************************************************************************)
\* how a training operation ended: failed when it raised or when no
\* candidate was fitted successfully
NoTrain == [who |-> "", failed |-> FALSE]

\* MaizeResilienceModel.prepare_features
ObjPrepareFeatures ==
    /\ obj' = prepare_features(obj)
    /\ UNCHANGED <<fresh, saved, trainVars, disk, dataset>>
    /\ UNCHANGED <<stressVars, weatherVars, derivedVars, masterVars, serviceVars>>

\* MaizeResilienceModel.train, on the arrays prepare_features returned
ObjTrain ==
    /\ obj.encoder.kind # "None" /\ obj.encoder.fitted
    /\ \E failure \in TrainFailures, fit \in Fits :
           /\ obj' = train(obj, failure, fit)
           /\ lastTrain' = [who |-> "model", failed |-> TrainFailure(obj, failure) # "none"]
    /\ UNCHANGED <<fresh, saved, trainer, disk, dataset>>
    /\ UNCHANGED <<stressVars, weatherVars, derivedVars, masterVars, serviceVars>>

\* EnhancedModelTrainer.prepare_features
TrainerPrepareFeatures ==
    /\ trainer' = trainer_prepare_features(trainer)
    /\ UNCHANGED <<lastTrain, objectVars, disk, dataset>>
    /\ UNCHANGED <<stressVars, weatherVars, derivedVars, masterVars, serviceVars>>

\* EnhancedModelTrainer.train_multiple_models, on the arrays prepare_features
\* returned: it raises before the candidates are tried, or tries them all
TrainMultipleModels ==
    /\ trainer.best_encoder.fitted
    /\ \/ \E failure \in {"split", "scale"} :
              /\ trainer' = train_multiple_models(trainer, failure, NoOutcomes, 0)
              /\ lastTrain' = [who |-> "trainer", failed |-> TRUE]
       \/ \E fit \in Fits, outcomes \in [1 .. Len(Candidates) -> CandidateOutcomes] :
              /\ trainer' = train_multiple_models(trainer, "none", outcomes, fit)
              /\ lastTrain' = [who |-> "trainer",
                               failed |-> \A i \in 1 .. Len(Candidates) : ~outcomes[i].ok]
    /\ UNCHANGED <<objectVars, disk, dataset>>
    /\ UNCHANGED <<stressVars, weatherVars, derivedVars, masterVars, serviceVars>>

\* MaizeResilienceModel.load_model on a file a training script wrote
ObjLoadModel ==
    /\ obj = NewModel
    /\ \E b \in ScriptBundles : obj' = load_model(obj, b)
    /\ UNCHANGED <<fresh, saved, trainVars, disk, dataset>>
    /\ UNCHANGED <<stressVars, weatherVars, derivedVars, masterVars, serviceVars>>

\* MaizeResilienceModel.predict_resilience_score: the call leaves the county
\* data loaded
ObjPredict ==
    /\ obj.is_trained
    /\ obj' = AfterPredict(obj, dataset)
    /\ UNCHANGED <<fresh, saved, trainVars, disk, dataset>>
    /\ UNCHANGED <<stressVars, weatherVars, derivedVars, masterVars, serviceVars>>

\* MaizeResilienceModel.save_model, lines 306-319: an untrained model raises
ObjSaveModel ==
    /\ obj.is_trained
    /\ disk' = [disk EXCEPT ![SavePath] = save_model(obj)]
    /\ saved' = obj
    /\ fresh' = NoModel
    /\ UNCHANGED <<obj, trainVars, dataset>>
    /\ UNCHANGED <<stressVars, weatherVars, derivedVars, masterVars, serviceVars>>

\* a new MaizeResilienceModel loads the saved file
FreshLoadModel ==
    /\ disk[SavePath].present
    /\ fresh' = load_model(NewModel, disk[SavePath])
    /\ UNCHANGED <<obj, saved, trainVars, disk, dataset>>
    /\ UNCHANGED <<stressVars, weatherVars, derivedVars, masterVars, serviceVars>>

\* predict_resilience_score on the new object
FreshPredict ==
    /\ fresh.exists /\ fresh.is_trained
    /\ fresh' = AfterPredict(fresh, dataset)
    /\ UNCHANGED <<obj, saved, trainVars, disk, dataset>>
    /\ UNCHANGED <<stressVars, weatherVars, derivedVars, masterVars, serviceVars>>

(***************************************************************************)
(* The three methods of MaizeResilienceModel that ask for a trained model, *)
(* called on obj whatever its state is.                                    *)
(***************************************************************************)
NoCall == [method |-> "", was_trained |-> FALSE, exc |-> ""]

\* a save that does not look at is_trained
save_model_unchecked(m, d) == [exc |-> "", disk |-> [d EXCEPT ![SavePath] = save_model(m)]]

\* MaizeResilienceModel.save_model(SavePath), lines 304-319, on the files d
save_model_to(m, d) ==
    IF ~m.is_trained THEN [exc |-> "ValueError", disk |-> d]
    ELSE [exc |-> "", disk |-> [d EXCEPT ![SavePath] = save_model(m)]]

\* MaizeResilienceModel.get_feature_importance, lines 352-358: the exception
\* it raises, "" when it returns the dict
get_feature_importance(m) ==
    IF ~m.is_trained THEN "ValueError"
    ELSE IF ~HasFeatureImportances(m.model) THEN "AttributeError"
    ELSE IF m.feature_names.isNone THEN "TypeError"
    ELSE ""

CallPredictResilienceScore ==
    /\ \E req \in Requests :
           call' = [method |-> "predict_resilience_score", was_trained |-> obj.is_trained,
                    exc |-> Predict(obj, dataset, req).exc]
    /\ obj' = AfterPredict(obj, dataset)
    /\ UNCHANGED <<fresh, saved, trainVars, disk, dataset>>
    /\ UNCHANGED <<irrigationVars, scoreVars, collectorVars, dataVars, datasetVars>>
    /\ UNCHANGED <<stressVars, weatherVars, masterVars, serviceVars>>

CallSaveModel ==
    /\ LET r == save_model_to(obj, disk)
       IN  /\ disk' = r.disk
           /\ call' = [method |-> "save_model", was_trained |-> obj.is_trained,
                        exc |-> r.exc]
    /\ UNCHANGED <<objectVars, trainVars, dataset>>
    /\ UNCHANGED <<irrigationVars, scoreVars, collectorVars, dataVars, datasetVars>>
    /\ UNCHANGED <<stressVars, weatherVars, masterVars, serviceVars>>

CallGetFeatureImportance ==
    /\ call' = [method |-> "get_feature_importance", was_trained |-> obj.is_trained,
                exc |-> get_feature_importance(obj)]
    /\ UNCHANGED <<objectVars, trainVars, disk, dataset>>
    /\ UNCHANGED <<irrigationVars, scoreVars, collectorVars, dataVars, datasetVars>>
    /\ UNCHANGED <<stressVars, weatherVars, masterVars, serviceVars>>

(***************************************************************************)
(* monitoring.py: the MetricsCollector in the hands of several threads.    *)
(* Each method runs under "with self.lock"; a thread takes the lock, runs  *)
(* the statements of the method one by one, and gives the lock back.       *)
(***************************************************************************)
NumThreads == 2
MaxCalls == 3

Threads == 1 .. NumThreads

\* PredictionMetrics(), lines 25-34
PredictionMetrics == [total_requests |-> 0, successful_requests |-> 0, failed_requests |-> 0]

IdleThread == [pc |-> "idle", op |-> "", success |-> FALSE]

NoMetricsSeen ==
    [seen |-> FALSE, total_requests |-> 0, successful_requests |-> 0,
     failed_requests |-> 0, completed |-> 0]

\* a lock that lets every thread in
lock_free_always(l) == TRUE

\* threading.Lock: "with self.lock" goes on when no thread holds the lock
lock_free(l) == l = 0

InitCollector ==
    /\ prediction_metrics = PredictionMetrics
    /\ lock = 0
    /\ threads = [t \in Threads |-> IdleThread]
    /\ calls = 0
    /\ completed = 0
    /\ metrics_seen = NoMetricsSeen

\* what the actions of the collector leave alone
collectorFrame ==
    /\ UNCHANGED <<irrigationVars, scoreVars, callVars, dataVars, datasetVars>>
    /\ UNCHANGED <<stressVars, weatherVars, masterVars, serviceVars, objectVars, trainVars,
                   disk, dataset>>

\* a thread calls record_prediction
RecordPrediction ==
    /\ calls < MaxCalls
    /\ \E self \in Threads, success \in BOOLEAN :
           /\ threads[self].pc = "idle"
           /\ threads' = [threads EXCEPT ![self] =
                              [pc |-> "acquire", op |-> "record_prediction",
                               success |-> success]]
    /\ calls' = calls + 1
    /\ UNCHANGED <<prediction_metrics, lock, completed, metrics_seen>>
    /\ collectorFrame

\* a thread calls get_metrics
GetMetrics ==
    /\ \E self \in Threads :
           /\ threads[self].pc = "idle"
           /\ threads' = [threads EXCEPT ![self] =
                              [pc |-> "acquire", op |-> "get_metrics", success |-> FALSE]]
    /\ UNCHANGED <<prediction_metrics, lock, calls, completed, metrics_seen>>
    /\ collectorFrame

\* a thread calls reset_metrics
ResetMetrics ==
    /\ \E self \in Threads :
           /\ threads[self].pc = "idle"
           /\ threads' = [threads EXCEPT ![self] =
                              [pc |-> "acquire", op |-> "reset_metrics", success |-> FALSE]]
    /\ UNCHANGED <<prediction_metrics, lock, calls, completed, metrics_seen>>
    /\ collectorFrame

\* "with self.lock:", lines 154, 195 and 261
AcquireLock ==
    /\ \E self \in Threads :
           /\ threads[self].pc = "acquire"
           /\ lock_free(lock)
           /\ lock' = self
           /\ threads' = [threads EXCEPT ![self].pc =
                              CASE threads[self].op = "record_prediction" -> "update_total"
                                [] threads[self].op = "get_metrics" -> "read"
                                [] OTHER -> "reset"]
    /\ UNCHANGED <<prediction_metrics, calls, completed, metrics_seen>>
    /\ collectorFrame

\* PredictionMetrics.update, line 36
UpdateTotal ==
    /\ \E self \in Threads :
           /\ threads[self].pc = "update_total"
           /\ threads' = [threads EXCEPT ![self].pc = "update_outcome"]
    /\ prediction_metrics' =
           [prediction_metrics EXCEPT !.total_requests = @ + 1]
    /\ UNCHANGED <<lock, calls, completed, metrics_seen>>
    /\ collectorFrame

\* PredictionMetrics.update, lines 39-42
UpdateOutcome ==
    /\ \E self \in Threads :
           /\ threads[self].pc = "update_outcome"
           /\ threads' = [threads EXCEPT ![self].pc = "release"]
           /\ prediction_metrics' =
                  IF threads[self].success
                  THEN [prediction_metrics EXCEPT !.successful_requests = @ + 1]
                  ELSE [prediction_metrics EXCEPT !.failed_requests = @ + 1]
    /\ UNCHANGED <<lock, calls, completed, metrics_seen>>
    /\ collectorFrame

\* get_metrics, lines 216-218: the counters it puts in the dict it returns
ReadMetrics ==
    /\ \E self \in Threads :
           /\ threads[self].pc = "read"
           /\ threads' = [threads EXCEPT ![self].pc = "release"]
    /\ metrics_seen' =
           [seen |-> TRUE,
            total_requests |-> prediction_metrics.total_requests,
            successful_requests |-> prediction_metrics.successful_requests,
            failed_requests |-> prediction_metrics.failed_requests,
            completed |-> completed]
    /\ UNCHANGED <<prediction_metrics, lock, calls, completed>>
    /\ collectorFrame

\* reset_metrics, line 262
ResetPredictionMetrics ==
    /\ \E self \in Threads :
           /\ threads[self].pc = "reset"
           /\ threads' = [threads EXCEPT ![self].pc = "release"]
    /\ prediction_metrics' = PredictionMetrics
    /\ completed' = 0
    /\ UNCHANGED <<lock, calls, metrics_seen>>
    /\ collectorFrame

\* the end of the with block: the call is over
ReleaseLock ==
    /\ \E self \in Threads :
           /\ threads[self].pc = "release"
           /\ threads' = [threads EXCEPT ![self] = IdleThread]
           /\ completed' = IF threads[self].op = "record_prediction"
                            THEN completed + 1 ELSE completed
    /\ lock' = 0
    /\ UNCHANGED <<prediction_metrics, calls, metrics_seen>>
    /\ collectorFrame

(***************************************************************************)
(* fastapi_app.py: the data endpoints, asked about one county, and the     *)
(* DataService behind them.  A dataset is not loaded ("None"), loaded      *)
(* without rows of the county, or loaded with rows of it.                  *)
(***************************************************************************)
Loadings == {"None", "without", "with"}

DataFiles == [weather_data : Loadings, yield_data : Loadings, soil_data : Loadings]

\* DataService.get_monthly_weather, lines 59-138: [] when nothing is loaded,
\* the default months when the county has no rows; TRUE when the list it
\* returns is not empty
get_monthly_weather(files) == files.weather_data # "None"

\* DataService.get_yield_trends, lines 237-266
get_yield_trends(files) == files.yield_data = "with"

\* DataService.get_soil_properties, lines 268-307
get_soil_properties(files) == files.soil_data = "with"

\* the body of the try of a data endpoint: 404 on an empty answer
data_endpoint_body(found) == IF found THEN Return(200) ELSE HTTPException(404)

\* get_monthly_weather, lines 681-698; get_climate_history, lines 701-724;
\* get_soil_data, lines 775-791; get_yield_data, lines 794-810
data_endpoint_status(found) == StatusOf(ExceptException(data_endpoint_body(found)))

NoDataResponse == [endpoint |-> "", found |-> FALSE, status |-> 0]

InitData ==
    /\ data_files \in DataFiles
    /\ data_resp = NoDataResponse

dataFrame ==
    /\ UNCHANGED <<data_files, irrigationVars, scoreVars, callVars, collectorVars, datasetVars>>
    /\ UNCHANGED <<stressVars, weatherVars, masterVars, serviceVars, objectVars, trainVars,
                   disk, dataset>>

\* GET /api/weather/{county}/monthly
GetMonthlyWeather ==
    /\ LET found == get_monthly_weather(data_files)
       IN  data_resp' = [endpoint |-> "weather", found |-> found,
                         status |-> data_endpoint_status(found)]
    /\ dataFrame

\* GET /api/climate/{county}/historical: a year is kept when its months are
\* not empty
GetClimateHistory ==
    /\ LET found == get_monthly_weather(data_files)
       IN  data_resp' = [endpoint |-> "climate", found |-> found,
                         status |-> data_endpoint_status(found)]
    /\ dataFrame

\* GET /api/soil/{county}
GetSoilData ==
    /\ LET found == get_soil_properties(data_files)
       IN  data_resp' = [endpoint |-> "soil", found |-> found,
                         status |-> data_endpoint_status(found)]
    /\ dataFrame

\* GET /api/yield/{county}
GetYieldData ==
    /\ LET found == get_yield_trends(data_files)
       IN  data_resp' = [endpoint |-> "yield", found |-> found,
                         status |-> data_endpoint_status(found)]
    /\ dataFrame

(***************************************************************************)
(* The specifications.  Each one runs one part of the program; the         *)
(* variables of the other parts keep their initial values.                 *)
(***************************************************************************)
IdleStress ==
    /\ hourly = [temp |-> 20, evap |-> 2, precip |-> 20, hum |-> 80]
    /\ stress = NoStress

IdleWeather ==
    /\ response = <<Observation(Value(20), Value(2), Value(20), Value(80))>>
    /\ weather_data = NoWeatherData
    /\ monthly = NoMonthly
    /\ weather_columns = EXPECTED_COLUMNS
    /\ dashboard = NoDashboard

IdleEnhance ==
    /\ annual_data = <<Value(250)>>
    /\ enhanced_data = NoEnhancedData

IdleMetrics ==
    /\ master_row = [Monthly_Water_Stress_Index |-> NoneValue,
                     Monthly_Crop_Yield_Impact_Percent |-> NoneValue,
                     Monthly_Irrigation_Needed_Real |-> NoneText]
    /\ composite = NoComposite

IdleSpatial ==
    /\ soil_point = [lat |-> 0, lon |-> 0]
    /\ soil_county = ""
    /\ raster = [stems |-> {}, samples |-> [c \in Counties |-> "value"]]
    /\ rainfall_data = PendingTable

IdleIrrigation ==
    /\ irrigation_args = [rainfall |-> 20, temp |-> 20, water_stress |-> 730]
    /\ irrigation_dict = NoIrrigationData

IdleScores ==
    /\ month_group = [hours |-> 1, hot |-> 0, stress |-> NoneValue]
    /\ month_scores = NoMonthScores

IdleCall == call = NoCall

IdleCollector == InitCollector

IdleData ==
    /\ data_files = [weather_data |-> "None", yield_data |-> "None", soil_data |-> "None"]
    /\ data_resp = NoDataResponse

IdleMore == IdleIrrigation /\ IdleScores /\ IdleCall /\ IdleCollector /\ IdleData

IdleDerived == IdleEnhance /\ IdleMetrics /\ IdleSpatial /\ IdleMore

IdleMaster ==
    /\ pcMaster = "idle"
    /\ tables = [weather |-> PendingTable, dashboard |-> PendingTable,
                 maize |-> PendingTable, soil |-> PendingTable,
                 rainfall |-> PendingTable]
    /\ soil_counties = NoSoilCounties
    /\ master = PendingTable

IdleService ==
    /\ model = NoModel
    /\ loaded = <<>>
    /\ resp = NoResponse

IdleObjects ==
    /\ obj = NewModel
    /\ fresh = NoModel
    /\ saved = NoModel

IdleTrain ==
    /\ trainer = NewTrainer
    /\ lastTrain = NoTrain

IdleFiles ==
    /\ disk = EmptyDisk
    /\ dataset = [readable |-> TRUE, stats |-> DatasetStats]

\* the FastAPI and Flask services
Init ==
    InitService /\ IdleStress /\ IdleWeather /\ IdleDerived /\ IdleMaster /\ IdleObjects
        /\ IdleTrain

Next ==
    \/ Lifespan \/ FastapiPredict \/ FastapiBatchPredict \/ FlaskPredict
    \/ WriteMasterDataset

Spec == Init /\ [][Next]_vars

\* collect_openmeteo_data.py on one hourly record
InitStressSpec ==
    InitStress /\ IdleWeather /\ IdleDerived /\ IdleMaster /\ IdleService /\ IdleObjects
        /\ IdleTrain /\ IdleFiles

NextStress == CalcWaterStress

SpecStress == InitStressSpec /\ [][NextStress]_vars

\* collect_openmeteo_data.py and create_water_scarcity_data.py on one
\* county-month
InitWeatherSpec ==
    InitWeather /\ IdleStress /\ IdleDerived /\ IdleMaster /\ IdleService /\ IdleObjects
        /\ IdleTrain /\ IdleFiles

NextWeather == ProcessWeatherResponse \/ CreateWaterScarcityDashboardData \/ DashboardMain

SpecWeather == InitWeatherSpec /\ [][NextWeather]_vars

\* the parts that the specifications of the derived datasets leave alone
IdlePipeline ==
    IdleStress /\ IdleWeather /\ IdleMaster /\ IdleService /\ IdleObjects /\ IdleTrain
        /\ IdleFiles /\ IdleMore

\* enhance_training_data.py on one annual table
InitEnhanceSpec == InitEnhance /\ IdleMetrics /\ IdleSpatial /\ IdlePipeline

NextEnhance == CreateEnhancedDataset

SpecEnhance == InitEnhanceSpec /\ [][NextEnhance]_vars

\* calculate_composite_metrics on one row of the master table
InitMetricsSpec == InitMetrics /\ IdleEnhance /\ IdleSpatial /\ IdlePipeline

NextMetrics == CalculateCompositeMetrics

SpecMetrics == InitMetricsSpec /\ [][NextMetrics]_vars

\* the soil classifier and the raster converter of integrate_all_datasets.py
InitSpatialSpec == InitSpatial /\ IdleEnhance /\ IdleMetrics /\ IdlePipeline

NextSpatial == AssignCounty \/ ConvertChirps

SpecSpatial == InitSpatialSpec /\ [][NextSpatial]_vars

\* calculate_irrigation_needs on one set of arguments
InitIrrigationSpec ==
    InitIrrigation /\ IdleScores /\ IdleCall /\ IdleCollector /\ IdleData /\ IdleEnhance /\ IdleMetrics /\ IdleSpatial /\ IdleStress
        /\ IdleWeather /\ IdleMaster /\ IdleService /\ IdleObjects /\ IdleTrain /\ IdleFiles

NextIrrigation == CalculateIrrigationNeeds

SpecIrrigation == InitIrrigationSpec /\ [][NextIrrigation]_vars

\* the scores of a county-month: those of the dashboard datasets and those
\* calculate_composite_metrics adds to its row of the master table
InitScoresSpec ==
    InitScores /\ InitMetrics /\ IdleIrrigation /\ IdleCall /\ IdleCollector /\ IdleData
        /\ IdleEnhance /\ IdleSpatial /\ IdleStress
        /\ IdleWeather /\ IdleMaster /\ IdleService /\ IdleObjects /\ IdleTrain /\ IdleFiles

NextScores == CreateDashboardScores \/ CalculateCompositeMetrics

SpecScores == InitScoresSpec /\ [][NextScores]_vars

\* the parts that the collector and the data endpoints leave alone
IdleRest ==
    IdleEnhance /\ IdleMetrics /\ IdleSpatial /\ IdleStress /\ IdleWeather /\ IdleMaster
        /\ IdleService /\ IdleObjects /\ IdleTrain /\ IdleFiles

\* the MetricsCollector under concurrent calls
InitCollectorSpec ==
    InitCollector /\ IdleIrrigation /\ IdleScores /\ IdleCall /\ IdleData /\ IdleRest

NextCollector ==
    \/ RecordPrediction \/ GetMetrics \/ ResetMetrics \/ AcquireLock \/ UpdateTotal
    \/ UpdateOutcome \/ ReadMetrics \/ ResetPredictionMetrics \/ ReleaseLock

SpecCollector == InitCollectorSpec /\ [][NextCollector]_vars

\* the data endpoints of the FastAPI service
InitDataSpec ==
    InitData /\ IdleIrrigation /\ IdleScores /\ IdleCall /\ IdleCollector /\ IdleRest

NextData == GetMonthlyWeather \/ GetClimateHistory \/ GetSoilData \/ GetYieldData

SpecData == InitDataSpec /\ [][NextData]_vars

\* integrate_all_datasets.py: create_master_dataset
InitMasterSpec ==
    InitMaster /\ IdleStress /\ IdleWeather /\ IdleDerived /\ IdleService /\ IdleObjects
        /\ IdleTrain /\ IdleFiles

NextMaster ==
    ReadWeather \/ ReadDashboard \/ ReadMaize \/ ReadSoil \/ ReadRainfall \/ CreateMaster

SpecMaster == InitMasterSpec /\ [][NextMaster]_vars

\* training
InitTrain ==
    /\ IdleStress /\ IdleWeather /\ IdleDerived /\ IdleMaster /\ IdleService /\ IdleObjects
    /\ IdleTrain
    /\ disk = EmptyDisk
    /\ dataset \in Datasets

NextTrain == ObjPrepareFeatures \/ ObjTrain \/ TrainerPrepareFeatures \/ TrainMultipleModels

SpecTrain == InitTrain /\ [][NextTrain]_vars

\* saving and loading
NextRoundTrip ==
    \/ ObjPrepareFeatures \/ ObjTrain \/ ObjLoadModel \/ ObjPredict
    \/ ObjSaveModel \/ FreshLoadModel \/ FreshPredict

SpecRoundTrip == InitTrain /\ [][NextRoundTrip]_vars

\* the life cycle of one MaizeResilienceModel: fitted, loaded, and asked
NextLifecycle ==
    \/ ObjPrepareFeatures \/ ObjTrain \/ ObjLoadModel
    \/ CallPredictResilienceScore \/ CallSaveModel \/ CallGetFeatureImportance

SpecLifecycle == InitTrain /\ [][NextLifecycle]_vars

(***************************************************************************)
(* The properties.                                                         *)
(***************************************************************************)
RecognizedCounties == {TrainingCounties[i] : i \in 1 .. Len(TrainingCounties)}

\* the prediction endpoints of the FastAPI service
FastapiEndpoints == {"fastapi/predict", "fastapi/predict/batch"}

\* C1: whenever the model object is absent or its is_trained flag is false,
\* every prediction endpoint (single and batch) answers with status 503 and
\* with no other status.
C1_NotReadyAnswers503 ==
    (resp.endpoint # "" /\ ~resp.ready) => resp.status = 503

\* C2: for every combination of temperature, evapotranspiration, rainfall and
\* humidity, calculate_water_stress_index returns a value in [0.73, 0.86].
C2_StressInInterval ==
    stress.computed => (730 <= stress.value /\ stress.value <= 860)

\* C2 witness: the index of an hour at 100 degrees with humidity 0 and some
\* rain, where the factors add up to more than the upper bound
C2_ExtremeHourComputed ==
    /\ stress.computed
    /\ hourly.temp = 100 /\ hourly.hum = 0 /\ hourly.precip > 0
    /\ total_stress(hourly.temp, hourly.evap, hourly.precip, hourly.hum) > 860

ClampedPercent(y) ==
    LET pct == (y * 100 * 1000) \div 2500
    IN  IF pct < 0 THEN 0 ELSE IF pct > 100000 THEN 100000 ELSE pct

OkResults == {i \in DOMAIN resp.results : resp.results[i].outcome.status = "ok"}

\* C4 as the specification states it: for every predicted yield the returned
\* resilience_score equals max(0, min(100, predicted_yield / 2.5 * 100)).
C4_ScoreEqualsClamp ==
    \A i \in OkResults :
        resp.results[i].outcome.resilience_score * 100
            = ClampedPercent(resp.results[i].outcome.yield)

\* C4: for every predicted yield the returned resilience_score is
\* max(0, min(100, predicted_yield / 2.5 * 100)) rounded to one decimal place
\* (it is within 0.05 of the clamp and a whole number of tenths), and it lies
\* in [0, 100].
C4_ScoreIsRoundedClamp ==
    \A i \in OkResults :
        LET score == resp.results[i].outcome.resilience_score
            exact == ClampedPercent(resp.results[i].outcome.yield)
        IN  /\ score * 100 - exact <= 50
            /\ exact - score * 100 <= 50
            /\ 0 <= score /\ score <= 1000

\* C4 witness: a response holds a prediction above the benchmark, whose score
\* is clamped to 100
C4_ClampedPredictionReturned ==
    /\ resp.status = 200
    /\ \E i \in OkResults : resp.results[i].outcome.yield > BENCHMARK_YIELD

\* the keys of the monthly weather aggregate create_master_dataset read
BaseKeys == Rows(tables.weather)

\* C5 as the specification states it: building the master table never drops
\* a base row: every row of the monthly weather aggregate appears in the
\* master table, even when the dashboard, yield, soil and rainfall sources
\* are all absent or empty for that key.
C5_BaseRowsAlwaysKept ==
    pcMaster = "done" =>
        \A k \in BaseKeys : master.kind = "table" /\ master.rows[k] >= tables.weather.rows[k]

\* C5: whenever create_master_dataset builds a master table, every row of
\* the monthly weather aggregate appears in it, even when the dashboard,
\* yield, soil and rainfall datasets have no row for that key.
C5_BaseRowsKeptInMaster ==
    (pcMaster = "done" /\ master.kind = "table") =>
        \A k \in BaseKeys : master.rows[k] >= tables.weather.rows[k]

\* C5 witness: a master table is built, and a key of the weather aggregate
\* has no row in the dashboard, yield, soil and rainfall datasets
C5_UnmatchedBaseRowJoined ==
    /\ pcMaster = "done" /\ master.kind = "table"
    /\ \E k \in BaseKeys :
           /\ tables.dashboard.rows[k] = 0
           /\ tables.maize.rows[k] = 0
           /\ tables.soil.rows[k] = 0
           /\ tables.rainfall.rows[k] = 0

\* C6: in the monthly weather aggregate and in the master table, no two rows
\* share the same (county, year, month) key, for any set of input weather
\* files, raster files, yield rows and soil points.
C6_KeysUnique ==
    /\ tables.weather.kind = "table" => \A k \in Keys : tables.weather.rows[k] <= 1
    /\ master.kind = "table" => \A k \in Keys : master.rows[k] <= 1

\* C7: a fit that fails leaves the object Unfit: if training raised, or no
\* candidate model was fitted successfully, is_trained is false when the
\* training operation ends.
C7_FailedFitLeavesUnfit ==
    /\ (lastTrain.who = "model" /\ lastTrain.failed) => ~obj.is_trained
    /\ (lastTrain.who = "trainer" /\ lastTrain.failed) => ~trainer.is_trained

C9_LoadedModelReady ==
    loaded # <<>> =>
        /\ model.is_trained
        /\ model.model.kind # "None" /\ model.scaler.kind # "None"
        /\ model.encoder.kind # "None" /\ ~model.feature_names.isNone
        /\ \A req \in Requests : Predict(model, dataset, req).status = "ok"

\* C10: a prediction request on a fitted model whose county is not a
\* recognized county does not raise; it returns a valid response.
C10_UnknownCountyAnswered ==
    (resp.endpoint \in FastapiEndpoints /\ resp.ready) =>
        \A i \in DOMAIN resp.results :
            resp.results[i].input.county \notin RecognizedCounties
                => resp.results[i].status = "success"

\* C11: once the service has loaded its model, no step changes a field of the
\* model object: a prediction request leaves regressor, scaler, encoder,
\* feature names, is_trained, model_type and county_data as the load left them
C11_ModelNeverMutatedAfterLoad ==
    [][model.exists => model' = model]_vars
\* C12: for the loaded model, a prediction repeated with the same (rainfall,
\* soil_ph, organic_carbon, county) returns the same predicted_yield and the
\* same resilience_score, the clamp of predicted_yield / 2.5 * 100 to [0, 100]
\* at the one decimal of the response, whatever was called in between: two
\* successive responses agree on every input they both answer
C12_RepeatedPredictionSame ==
    [][\A i \in OkResults : \A j \in DOMAIN resp'.results :
          (/\ resp'.results[j].outcome.status = "ok"
           /\ resp'.results[j].input = resp.results[i].input)
          => LET before == resp.results[i].outcome
                 after == resp'.results[j].outcome
                 exact == ClampedPercent(after.yield)
             IN  /\ after.predicted_yield = before.predicted_yield
                 /\ after.resilience_score = before.resilience_score
                 /\ after.resilience_score * 100 - exact <= 50
                 /\ exact - after.resilience_score * 100 <= 50]_vars
\* the county-month of the scenario: precipitation [0, 20, 80], temperature
\* [35, 25, 20], humidity [50, 70, 80], evapotranspiration [8, 4, 2]
Scenario ==
    << Observation(Value(35), Value(8), Value(0), Value(50)),
       Observation(Value(25), Value(4), Value(20), Value(70)),
       Observation(Value(20), Value(2), Value(80), Value(80)) >>

NoEvapRecords ==
    {i \in DOMAIN weather_data.records : response[i].evap.isNone}

C20_SchemaMismatchRaises ==
    (dashboard.status # "pending" /\ weather_columns # EXPECTED_COLUMNS)
        => /\ dashboard.status = "raised"
           /\ ~dashboard.loaded
           /\ dashboard.files = {}
\* the yield of row i lies in the IQR band and in the domain band, ends included
InBothBands(i) ==
    LET b == IQRBounds(annual_data)
        y == annual_data[i].v
    IN  /\ ~b.isNone
        /\ b.lower8 <= 8 * y /\ 8 * y <= b.upper8
        /\ domain_lower <= y /\ y <= domain_upper

\* C14 as the specification states it: the two yield filters remove exactly
\* the rows whose yield falls outside the IQR bounds or outside the domain
\* band [0.8, 5.0], the ends of each band being inside (a row whose yield
\* is missing is not a row outside a band); a row with yield exactly 0.8 is
\* retained and a row with yield 0.79 is removed.
C14_RemovedExactlyOutside ==
    enhanced_data.made
        => \A i \in DOMAIN annual_data :
               /\ i \notin enhanced_data.index
                     <=> (~annual_data[i].isNone /\ ~InBothBands(i))
               /\ annual_data[i] = Value(80) => i \in enhanced_data.index
               /\ annual_data[i] = Value(79) => i \notin enhanced_data.index

\* C14: the two yield filters keep exactly the rows that have a yield inside
\* the IQR bounds [Q1 - 1.5*IQR, Q3 + 1.5*IQR] and inside the domain band
\* [0.8, 5.0], ends included, and remove the rows outside a band and the
\* rows without a yield: a row with yield 0.8 inside the IQR bounds is
\* kept, a row with yield 0.79 is removed.
C14_KeptExactlyInside ==
    enhanced_data.made
        => \A i \in DOMAIN annual_data :
               /\ i \in enhanced_data.index
                     <=> (~annual_data[i].isNone /\ InBothBands(i))
               /\ annual_data[i] = Value(79) => i \notin enhanced_data.index
               /\ (/\ annual_data[i] = Value(80)
                   /\ IQRBounds(annual_data).lower8 <= 8 * 80
                   /\ 8 * 80 <= IQRBounds(annual_data).upper8)
                     => i \in enhanced_data.index

\* C14 witness: the filters ran on a table with a yield of 0.79, a yield of
\* 0.8 that stays, and a yield inside the domain band that the IQR bounds
\* remove
C14_BoundaryRowsFiltered ==
    /\ enhanced_data.made
    /\ \E i, j, k \in DOMAIN annual_data :
           /\ annual_data[i] = Value(80) /\ i \in enhanced_data.index
           /\ annual_data[j] = Value(79)
           /\ annual_data[k] = Value(500) /\ k \notin enhanced_data.index
\* C15: after the composite metrics are computed the row has its three scores,
\* none of them null: the water-scarcity score is 50 when the stress index is
\* null and the stress index times 100 otherwise; the agricultural-risk index
\* is 25 when the yield impact is null and the yield impact otherwise; the
\* irrigation-priority score is 50 when the flag is null, 75 when it is "Yes"
\* and 25 for any other flag.
C15_CompositeScoresPopulated ==
    composite.computed
        => LET stress_index == master_row.Monthly_Water_Stress_Index
               impact == master_row.Monthly_Crop_Yield_Impact_Percent
               flag == master_row.Monthly_Irrigation_Needed_Real
           IN  /\ ~composite.Water_Scarcity_Score.isNone
               /\ ~composite.Agricultural_Risk_Index.isNone
               /\ ~composite.Irrigation_Priority_Score.isNone
               /\ composite.Water_Scarcity_Score.v
                      = IF stress_index.isNone THEN 50 * 1000 ELSE stress_index.v * 100
               /\ composite.Agricultural_Risk_Index.v
                      = IF impact.isNone THEN 25 ELSE impact.v
               /\ composite.Irrigation_Priority_Score.v
                      = IF flag.isNone THEN 50 ELSE IF flag.v = "Yes" THEN 75 ELSE 25

\* C15 witness: the metrics of a row with a null stress index, a null yield
\* impact and a null flag have been computed
C15_NullRowScored ==
    /\ composite.computed
    /\ master_row.Monthly_Water_Stress_Index.isNone
    /\ master_row.Monthly_Crop_Yield_Impact_Percent.isNone
    /\ master_row.Monthly_Irrigation_Needed_Real.isNone
\* the counties whose sample is NaN or the nodata value
NoDataCounties == {c \in Counties : raster.samples[c] \in {"nan", "nodata"}}

\* C17: when the raster value sampled at a county's coordinate is NaN or the
\* raster's nodata value, no rainfall row is emitted for that county, year and
\* month: no row with a zero or a sentinel rainfall stands in its place
C17_NoRowForNoData ==
    rainfall_data.kind # "pending"
        => \A k \in Keys : k[1] \in NoDataCounties => rainfall_data.rows[k] = 0

\* the rectangles that hold a point
Matching(lat, lon) ==
    {i \in 1 .. Len(CountyRectangles) :
        LET r == CountyRectangles[i]
        IN  r.latLo <= lat /\ lat <= r.latHi /\ r.lonLo <= lon /\ lon <= r.lonHi}

\* C19: the county rectangles are pairwise non-overlapping: a soil point lies in
\* at most one rectangle, so the county it is given is that of every
\* rectangle that holds it, whatever the order of the tests
C19_AtMostOneRectangle ==
    soil_county # ""
        => /\ Cardinality(Matching(soil_point.lat, soil_point.lon)) <= 1
           /\ \A i \in Matching(soil_point.lat, soil_point.lon) :
                  CountyRectangles[i].name = soil_county

\* the soil reader has run
SoilRead == pcMaster \in {"rainfall", "join", "done"}

RainfallFactorCap == 400
HumidityFactorCap == 100

\* C23: when precipitation is positive the index is the clamp of the base
\* constant plus four contributions, and each contribution stays within its
\* documented cap: temperature and evapotranspiration in [0, 0.3], rainfall
\* deficit in [0, 0.4], humidity deficit in [0, 0.1].
C23_ContributionsWithinCaps ==
    (stress.computed /\ hourly.precip > 0) =>
        /\ 0 <= temp_factor(hourly.temp) /\ temp_factor(hourly.temp) <= TempCap
        /\ 0 <= evap_factor(hourly.evap) /\ evap_factor(hourly.evap) <= EvapCap
        /\ 0 <= rainfall_factor(hourly.precip)
        /\ rainfall_factor(hourly.precip) <= RainfallFactorCap
        /\ 0 <= humidity_factor(hourly.hum)
        /\ humidity_factor(hourly.hum) <= HumidityFactorCap
        /\ stress.value = ClampStress(BaseStress + temp_factor(hourly.temp)
                                          + evap_factor(hourly.evap)
                                          + rainfall_factor(hourly.precip)
                                          + humidity_factor(hourly.hum))


\* the values more than half of the flags hold: one value or none
Majority(xs) == {x \in {xs[i] : i \in 1 .. Len(xs)} : 2 * CountOf(xs, x) > Len(xs)}

\* C24: the monthly irrigation-needed flag of a county-month is the value the
\* majority of its hourly records hold, in the collector's monthly aggregate
\* and in the irrigation dataset of create_water_scarcity_data.py alike.
C24_MonthlyFlagIsMajority ==
    \A x \in Majority(Flags(weather_data.records)) :
        /\ monthly.made => monthly.Irrigation_Needed = {x}
        /\ dashboard.status = "saved" => dashboard.Monthly_Irrigation_Needed = x

\* C25: the heat-stress value of each hourly record is 1 if its temperature
\* is above 30 and 0 otherwise, whatever the other values of the hour are,
\* and the monthly heat-stress count is the sum of the hourly values.
C25_HeatStressByTemperatureAlone ==
    /\ weather_data.processed =>
           \A i \in DOMAIN weather_data.records :
               weather_data.records[i].Heat_Stress_Days =
                   IF ~response[i].temp.isNone /\ response[i].temp.v > HeatThreshold
                   THEN 1 ELSE 0
    /\ monthly.made => monthly.Monthly_Heat_Stress_Days = SumHeat(weather_data.records)


\* C22: irrigation is flagged needed if and only if rainfall < 10 and water
\* stress > 0.75; when needed, volume and yield impact come from exactly one
\* of three ordered bands (stress > 0.80: 4450 and 20; else stress > 0.78:
\* 4300 and 15; else 3800 and 10); when not needed both are 0.
C22_IrrigationBands ==
    irrigation_dict.made =>
        LET a == irrigation_args
            d == irrigation_dict
            band == <<d.irrigation_volume_liters_ha, d.crop_yield_impact_percent>>
        IN  /\ d.irrigation_needed \in {"Yes", "No"}
            /\ d.irrigation_needed = "Yes" <=> (a.rainfall < 10 /\ a.water_stress > 750)
            /\ d.irrigation_needed = "No" => band = <<0, 0>>
            /\ d.irrigation_needed = "Yes" =>
                   /\ a.water_stress > 800 => band = <<4450, 20>>
                   /\ (a.water_stress <= 800 /\ a.water_stress > 780) => band = <<4300, 15>>
                   /\ a.water_stress <= 780 => band = <<3800, 10>>

\* C22 witness: a call with little rain and a stress just above 0.80 has
\* answered from the top band
C22_PeakBandAnswered ==
    /\ irrigation_dict.made
    /\ irrigation_args.rainfall = 9 /\ irrigation_args.water_stress = 801
    /\ irrigation_dict.irrigation_volume_liters_ha = PeakVolume


\* C21: every score documented as a 0-100 scale lies in [0, 100] in every
\* monthly row: the heat-stress severity and irrigation efficiency scores of
\* the dashboard datasets, and the water-scarcity, agricultural-risk and
\* irrigation-priority scores of the master table.
C21_ScoresWithinScale ==
    /\ month_scores.made =>
           /\ 0 <= month_scores.Heat_Stress_Severity_Score
           /\ month_scores.Heat_Stress_Severity_Score <= 100 * 100
           /\ ~month_scores.Irrigation_Efficiency_Score.isNone =>
                  /\ 0 <= month_scores.Irrigation_Efficiency_Score.v
                  /\ month_scores.Irrigation_Efficiency_Score.v <= 100 * 1000
    /\ composite.computed =>
           /\ 0 <= composite.Water_Scarcity_Score.v
           /\ composite.Water_Scarcity_Score.v <= 100 * 1000
           /\ 0 <= composite.Agricultural_Risk_Index.v
           /\ composite.Agricultural_Risk_Index.v <= 100
           /\ 0 <= composite.Irrigation_Priority_Score.v
           /\ composite.Irrigation_Priority_Score.v <= 100


\* C26: while is_trained is false, predict_resilience_score, save_model and
\* get_feature_importance each raise an error, write no file and leave the
\* model as it was, Unfit; is_trained becomes true only through a successful
\* fit or a load.
C26_UnfitModelUnusable ==
    [][/\ (call' # call /\ ~obj.is_trained) =>
              /\ call'.exc = "ValueError"
              /\ obj' = obj
              /\ disk' = disk
       /\ (~obj.is_trained /\ obj'.is_trained) =>
              \/ \E fit \in Fits :
                     /\ obj' = train(obj, "none", fit)
                     /\ lastTrain' = [who |-> "model", failed |-> FALSE]
              \/ \E b \in ScriptBundles : obj' = load_model(obj, b)]_vars

\* C26 witness: save_model was called on a model that is not trained and
\* raised; the model is still not trained and no file is there
C26_UnfitSaveRaised ==
    /\ call.method = "save_model" /\ ~call.was_trained /\ call.exc = "ValueError"
    /\ ~obj.is_trained
    /\ ~disk[SavePath].present


\* C28: in every state get_metrics observes, under any interleaving of
\* concurrent record_prediction, get_metrics and reset_metrics calls,
\* total_requests = successful_requests + failed_requests, and
\* total_requests is the number of record_prediction calls completed since
\* the last reset.
C28_MetricsConsistent ==
    metrics_seen.seen =>
        /\ metrics_seen.total_requests =
               metrics_seen.successful_requests + metrics_seen.failed_requests
        /\ metrics_seen.total_requests = metrics_seen.completed

\* C28 witness: get_metrics has read the counters of two recorded
\* predictions, one of them failed, while another thread is inside a call
C28_MetricsReadUnderContention ==
    /\ metrics_seen.seen
    /\ metrics_seen.total_requests = 2 /\ metrics_seen.failed_requests = 1
    /\ \E t \in Threads :
           threads[t].pc = "release" /\ threads[t].op = "get_metrics" /\ lock = t
    /\ \E t \in Threads : threads[t].pc = "acquire" /\ threads[t].op = "record_prediction"

\* C29: when the data service has no data for the county, the weather,
\* climate-history, soil and yield endpoints answer 404; 500 is answered only
\* when the data service itself raises, which its methods never do.
C29_NoDataAnswers404 ==
    data_resp.endpoint # "" =>
        /\ ~data_resp.found => data_resp.status = 404
        /\ data_resp.status # 500


\* C27: for a batch request of n items on a fitted model, the response holds
\* exactly n results in request order, each marked success or error, with
\* total_processed = n and successful_count + failed_count = n; an item whose
\* prediction raises is an error result and the items after it are processed.
C27_BatchAnswersEveryItem ==
    (resp.endpoint = "fastapi/predict/batch" /\ resp.ready) =>
        LET n == Len(resp.requests)
        IN  /\ resp.status = 200
            /\ Len(resp.results) = n
            /\ \A i \in 1 .. n :
                   /\ resp.results[i].input = resp.requests[i]
                   /\ resp.results[i].status \in {"success", "error"}
                   /\ resp.results[i].status = "error"
                          <=> resp.results[i].outcome.status = "raise"
            /\ resp.total_processed = n
            /\ resp.successful_count + resp.failed_count = n
            /\ resp.successful_count =
                   Cardinality({i \in 1 .. n : resp.results[i].outcome.status = "ok"})

\* C27 witness: a batch of two items was answered by a fitted model whose
\* prediction raised for the first item
C27_FailedItemAnswered ==
    /\ resp.endpoint = "fastapi/predict/batch" /\ resp.ready
    /\ Len(resp.requests) = 2
    /\ Len(resp.results) = 2
    /\ resp.results[1].status = "error"
    /\ resp.failed_count >= 1

\* the paths of model_paths that exist, by their place in the list
ExistingPaths == {i \in 1 .. Len(model_paths) : disk[model_paths[i]].present}

\* C30: at startup exactly one model file is loaded, the first existing one
\* in the order enhanced, county-specific, legacy, and no file after it; when
\* none of the three exists the service still starts, its model not trained.
C30_FirstExistingFileLoaded ==
    model.exists =>
        IF ExistingPaths = {}
        THEN loaded = <<>> /\ ~model.is_trained
        ELSE LET first == CHOOSE i \in ExistingPaths : \A j \in ExistingPaths : i <= j
             IN  /\ loaded = <<model_paths[first]>>
                 /\ model.model = disk[model_paths[first]].model
                 /\ model.scaler = disk[model_paths[first]].scaler

\* C30 witness: the service started with no enhanced file and with both
\* the county-specific and the legacy file, and loaded the former
C30_CountyFileLoadedBeforeLegacy ==
    /\ model.exists
    /\ ~disk[EnhancedPath].present
    /\ disk[CountyPath].present /\ disk[LegacyPath].present
    /\ loaded = <<CountyPath>>

====
